---- MODULE Spec2Model ----
(***************************************************************************)
(* The name resolver of lumina-compiler (ast/resolve.rs): the module table *)
(* of Lookups, its construction and declaration operations, and path       *)
(* resolution with namespace priority, visibility and the prelude          *)
(* fallback.                                                               *)
(***************************************************************************)
EXTENDS Integers, Sequences, FiniteSets, TLC

\* ------------------------------------------------------------------ bounds

MaxModules == 3
MaxDecls == 2
MaxPathLen == 3
\* construction steps (modules created, declarations made, project set) in a run
MaxOps == 4
\* the bit width of the integers matched on, and the merge_int calls in a run
Bits == 2
MaxMerges == 3
MaxTails == 3
\* the widest integer type constraints are made for
MaxWidth == 64

\* --------------------------------------------------------------- constants

\* key::PRELUDE, the module every unqualified lookup falls back to
PRELUDE == 0
\* Lookups::new leaves `project` at key::Module(u32::MAX) until the driver sets
\* it: a key that indexes no module table (2^32 - 1 is beyond TLC's integers)
UNSET_PROJECT == 0 - 1

LibSections == {"std", "ext", "prelude"}
\* the sections new_lib is called with, and the library names it registers
NewLibSections == {"std"}
LibNames == {"prelude"}
\* identifiers that occur as path segments, and those that get declared
PathNames == {"std", "prelude", "foo"}
FuncNames == {"foo", "project"}
TypeNames == {"foo"}
LinkNames == {"foo"}
Namespace == {"Functions", "Types", "Modules"}
\* the field names accessors are declared under, and the key::Record and
\* key::RecordField keys they are declared with
AccessorNames == {"x", "y"}
Records == {0, 1}
RecordFields == {0, 1}

\* ------------------------------------------------------------ data values

None == <<"None">>
Some(x) == <<"Some", x>>

Public == <<"Public">>
Project(m) == <<"Project", m>>

Mod(visibility, module, key) ==
    [visibility |-> visibility, module |-> module, key |-> key]

\* Mod::map
map(m, f) == [m EXCEPT !.key = <<f, m.key>>]

Ok(v) == <<"Ok", v>>
Err(e) == <<"Err", e>>
\* an index out of bounds or a slice out of range: the call aborts
Panic == <<"Panic">>

BadAccess(vis, kind, name) == <<"BadAccess", vis, kind, name>>
LibNotInstalled(name) == <<"LibNotInstalled", name>>
NotFound(module, name) == <<"NotFound", module, name>>
ModNotFound(module, name) == <<"ModNotFound", module, name>>

EmptyMap == [x \in {} |-> None]
Insert(f, k, v) == [x \in (DOMAIN f) \cup {k} |-> IF x = k THEN v ELSE f[x]]
Get(f, k) == IF k \in DOMAIN f THEN Some(f[k]) ELSE None

RootKind(parent) == <<"Root", parent>>
MemberKind(root) == <<"Member", root>>

\* Namespaces::default, ModuleKind::default
DefaultNamespaces ==
    [funcs |-> EmptyMap, types |-> EmptyMap, child_modules |-> EmptyMap,
     kind |-> RootKind(None), accessors |-> EmptyMap]

\* ------------------------------------------------------------------ state

VARIABLES
    modules,    \* Lookups.modules: the Namespaces of each module, by key
    project,    \* Lookups.project
    libs,       \* Lookups.libs: section label -> library name -> module
    ndecl,      \* the declarations made so far, also the next entity key
    declared,   \* the declare and declare_module_link calls made, in order
    res,        \* the query made on the table, with its result
    branching,  \* the Branching<Range> merge_int works on: its arms, in order
    merge,      \* the merge_int call made last on `branching`, with its result
    matching,   \* the match PatLower is made for: scrutinee, DecTree, predecessors
    lower       \* PatLower, with the function (blocks, bindmap) it lowers into

resolver_vars == <<modules, project, libs, ndecl, declared, res>>
range_vars == <<branching, merge>>
pat_vars == <<matching, lower>>
vars == <<resolver_vars, range_vars, pat_vars>>

\* a component that takes no part in the run
Idle == [phase |-> "idle"]

ModuleKeys == 0 .. (Len(modules) - 1)
Exists(m) == m \in ModuleKeys
NS(m) == modules[m + 1]

\* ------------------------------------------------------------- visibility

RECURSIVE get_root_module(_)
get_root_module(of) ==
    LET kind == NS(of).kind IN
    IF kind[1] = "Root"
    THEN IF kind[2] = None THEN of ELSE get_root_module(kind[2][2])
    ELSE kind[2]

are_members_of_same_project(ms) ==
    LET m == get_root_module(ms[1]) IN
    \A i \in 2 .. Len(ms) : get_root_module(ms[i]) = m

is_valid_reachability(current, visibility) ==
    IF visibility[1] = "Project"
    THEN are_members_of_same_project(<<current, visibility[2]>>)
    ELSE TRUE

\* -------------------------------------------------------------- namespaces

try_function_namespace(ns, name) ==
    IF name \in DOMAIN ns.funcs THEN Some(map(ns.funcs[name], "Func")) ELSE None

try_child_imports(ns, name) ==
    IF name \in DOMAIN ns.child_modules
    THEN Some(map(ns.child_modules[name], "Module"))
    ELSE None

try_type_namespace(ns, name) ==
    IF name \in DOMAIN ns.types THEN Some(map(ns.types[name], "Type")) ELSE None

\* Option::or_else
OrElse(a, b) == IF a # None THEN a ELSE b

\* try_namespace with the module namespace probed first under the function
\* priority
try_namespace_modules_before_funcs(ns, namespace, name) ==
    CASE namespace = "Functions" ->
            OrElse(try_child_imports(ns, name),
                   OrElse(try_function_namespace(ns, name), try_type_namespace(ns, name)))
      [] namespace = "Types" ->
            OrElse(try_type_namespace(ns, name),
                   OrElse(try_function_namespace(ns, name), try_child_imports(ns, name)))
      [] namespace = "Modules" ->
            OrElse(try_child_imports(ns, name),
                   OrElse(try_function_namespace(ns, name), try_type_namespace(ns, name)))

\* try_namespace with the function namespace probed first under the module
\* priority
try_namespace_funcs_before_modules(ns, namespace, name) ==
    CASE namespace = "Functions" ->
            OrElse(try_function_namespace(ns, name),
                   OrElse(try_type_namespace(ns, name), try_child_imports(ns, name)))
      [] namespace = "Types" ->
            OrElse(try_type_namespace(ns, name),
                   OrElse(try_function_namespace(ns, name), try_child_imports(ns, name)))
      [] namespace = "Modules" ->
            OrElse(try_function_namespace(ns, name),
                   OrElse(try_child_imports(ns, name), try_type_namespace(ns, name)))

try_namespace(ns, namespace, name) ==
    CASE namespace = "Functions" ->
            OrElse(try_function_namespace(ns, name),
                   OrElse(try_type_namespace(ns, name), try_child_imports(ns, name)))
      [] namespace = "Types" ->
            OrElse(try_type_namespace(ns, name),
                   OrElse(try_function_namespace(ns, name), try_child_imports(ns, name)))
      [] namespace = "Modules" ->
            OrElse(try_child_imports(ns, name),
                   OrElse(try_function_namespace(ns, name), try_type_namespace(ns, name)))

\* Entity::describe
describe(entity) ==
    CASE entity[1] = "Module" -> "module"
      [] entity[1] = "Func" -> "function"
      [] entity[1] = "Type" -> "type"
      [] entity[1] = "Member" -> "member"

\* -------------------------------------------------------------- resolution

\* resolve_import that goes on to the parent of a Root module
RECURSIVE resolve_import_through_parent(_, _)
resolve_import_through_parent(from, name) ==
    IF name \in DOMAIN NS(from).child_modules
    THEN Some(NS(from).child_modules[name])
    ELSE IF NS(from).kind[1] = "Member"
         THEN resolve_import_through_parent(NS(from).kind[2], name)
         ELSE IF NS(from).kind[2] # None
              THEN resolve_import_through_parent(NS(from).kind[2][2], name)
              ELSE None

RECURSIVE resolve_import(_, _)
resolve_import(from, name) ==
    IF name \in DOMAIN NS(from).child_modules
    THEN Some(NS(from).child_modules[name])
    ELSE IF NS(from).kind[1] = "Member"
         THEN resolve_import(NS(from).kind[2], name)
         ELSE None

\* is_valid_reachability indexes the module table with `current` when the
\* visibility is Project: an index out of bounds when that module does not exist
reachability_aborts(current, visibility) ==
    visibility[1] = "Project" /\ ~Exists(current)

\* module_check that asks whether the link is reachable from the module it was
\* declared in
module_check_from_declaring_module(origin, m, ignore_vis) ==
    ~is_valid_reachability(m.module, m.visibility) /\ ~ignore_vis

\* the visibility check resolve_in makes on the module a path walks through
module_check(origin, m, ignore_vis) ==
    ~is_valid_reachability(origin, m.visibility) /\ ~ignore_vis

\* entity_check without the ignore_vis bypass
entity_check_without_bypass(origin, entity, ignore_vis) ==
    ~is_valid_reachability(origin, entity.visibility)

\* the visibility check resolve_in makes on the entity it found
entity_check(origin, entity, ignore_vis) ==
    ~is_valid_reachability(origin, entity.visibility) /\ ~ignore_vis

\* member_sugar that takes whatever the type-priority lookup finds for a type
member_sugar_any_entity(module, x, xs) ==
    IF Len(xs) = 1
    THEN LET t == try_namespace(NS(module), "Types", x) IN
         IF t = None THEN Err(ModNotFound(module, x))
         ELSE Ok([t[2] EXCEPT !.key = <<"Member", t[2].key[2], xs[1]>>])
    ELSE Err(ModNotFound(module, x))

\* resolve_in, the arm `[x, xs @ ..]` when x is no import: the type-member sugar
member_sugar(module, x, xs) ==
    IF Len(xs) = 1
    THEN LET t == try_namespace(NS(module), "Types", x) IN
         IF t = None THEN Err(ModNotFound(module, x))
         ELSE IF t[2].key[1] = "Type"
              THEN Ok([t[2] EXCEPT !.key = <<"Member", t[2].key[2], xs[1]>>])
              ELSE Err(ModNotFound(module, x))
    ELSE Err(ModNotFound(module, x))

\* resolve_in, the arm `[x]`
single_segment(namespace, module, x) ==
    LET found ==
            IF namespace = "Modules"
            THEN LET imp == resolve_import(module, x) IN
                 IF imp # None THEN Some(map(imp[2], "Module"))
                 ELSE try_namespace(NS(module), namespace, x)
            ELSE try_namespace(NS(module), namespace, x)
    IN  IF found # None THEN Ok(found[2]) ELSE Err(NotFound(module, x))

RECURSIVE resolve_in(_, _, _, _, _)
resolve_in(origin, namespace, module, path, ignore_vis) ==
    IF path = <<>>
    THEN Ok(Mod(Public, module, <<"Module", module>>))
    ELSE IF ~Exists(module) THEN Panic
    ELSE
    LET x == Head(path)
        xs == Tail(path)
        imp == resolve_import(module, x)
        entity ==
            IF Len(path) = 1 THEN single_segment(namespace, module, x)
            ELSE IF imp # None
                 THEN IF reachability_aborts(origin, imp[2].visibility) THEN Panic
                      ELSE IF module_check(origin, imp[2], ignore_vis)
                      THEN Err(BadAccess(imp[2].visibility, "module", x))
                      ELSE resolve_in(origin, namespace, imp[2].key, xs, ignore_vis)
                 ELSE member_sugar(module, x, xs)
    IN  IF entity[1] # "Ok" THEN entity
        ELSE IF reachability_aborts(origin, entity[2].visibility) THEN Panic
        ELSE IF entity_check(origin, entity[2], ignore_vis)
             THEN Err(BadAccess(entity[2].visibility, describe(entity[2].key),
                                path[Len(path)]))
             ELSE entity

\* the fallback that reports the prelude's error when both walks fail
with_prelude_error(from, namespace, start_at, path, ignore_vis) ==
    LET first == resolve_in(from, namespace, start_at, path, ignore_vis) IN
    IF first[1] # "Err" THEN first
    ELSE IF first[2][1] \in {"BadAccess", "LibNotInstalled"} THEN first
    ELSE resolve_in(from, namespace, PRELUDE, path, ignore_vis)

\* resolve, the last expression: the walk and the prelude fallback
with_prelude_fallback(from, namespace, start_at, path, ignore_vis) ==
    LET first == resolve_in(from, namespace, start_at, path, ignore_vis) IN
    IF first[1] # "Err" THEN first
    ELSE IF first[2][1] \in {"BadAccess", "LibNotInstalled"} THEN first
    ELSE LET second == resolve_in(from, namespace, PRELUDE, path, ignore_vis) IN
         IF second[1] = "Err" THEN first ELSE second

\* `path = &path[n..]`
SliceFrom(path, n) == SubSeq(path, n + 1, Len(path))

\* resolve, `let start_at = match self.libs.get(path[0])`: the module the walk
\* starts at and the path left for it
start_at(from, path) ==
    IF Len(path) = 0 THEN Panic
    ELSE IF path[1] \in DOMAIN libs
    THEN LET lname == IF Len(path) >= 2 THEN path[2] ELSE "" IN
         IF Len(path) < 2 THEN Panic
         ELSE IF lname \notin DOMAIN libs[path[1]]
              THEN Err(LibNotInstalled(lname))
              ELSE Ok([module |-> libs[path[1]][lname], path |-> SliceFrom(path, 2)])
    ELSE IF path[1] = "project"
    THEN Ok([module |-> project, path |-> SliceFrom(path, 1)])
    ELSE Ok([module |-> from, path |-> path])

\* resolve, `if Some(["std", "prelude"]) == path.get(..2)`
effective_ignore_vis(path, ignore_vis) ==
    IF Len(path) >= 2 /\ SubSeq(path, 1, 2) = <<"std", "prelude">>
    THEN TRUE
    ELSE ignore_vis

resolve(from, namespace, path, ignore_vis) ==
    LET start == start_at(from, path) IN
    IF start[1] # "Ok" THEN start
    ELSE with_prelude_fallback(from, namespace, start[2].module, start[2].path,
                               effective_ignore_vis(path, ignore_vis))

\* lib_should_be_included that looks the library up in the section the path
\* names
lib_should_be_included_in_any_section(path) ==
    IF Len(path) = 0 THEN Panic
    ELSE IF path[1] \in DOMAIN libs
    THEN IF Len(path) < 2 THEN Panic
         ELSE IF path[2] \notin DOMAIN libs[path[1]]
              THEN Some(<<path[2], SliceFrom(path, 2)>>)
              ELSE None
    ELSE None

\* `path[0]`, `path[1]` index out of bounds on a path too short
lib_should_be_included(path) ==
    IF Len(path) = 0 THEN Panic
    ELSE IF path[1] = "std"
    THEN IF Len(path) < 2 THEN Panic
         ELSE IF path[2] \notin DOMAIN libs["std"]
              THEN Some(<<path[2], SliceFrom(path, 2)>>)
              ELSE None
    ELSE None

resolve_func(from, path) == resolve(from, "Functions", path, FALSE)
resolve_type(from, path) == resolve(from, "Types", path, FALSE)
resolve_module(from, path) == resolve(from, "Modules", path, FALSE)
resolve_langitem(names) == resolve(project, "Functions", names, TRUE)

\* ------------------------------------------------------------------ inputs

RECURSIVE SeqsUpTo(_, _)
SeqsUpTo(S, n) ==
    IF n = 0 THEN {<<>>}
    ELSE LET shorter == SeqsUpTo(S, n - 1) IN
         shorter \cup {Append(p, x) : p \in shorter, x \in S}

\* the paths queried: the keyword `project` only where resolve looks for it, as
\* the first segment
Paths ==
    SeqsUpTo(PathNames, MaxPathLen)
        \cup {<<"project">> \o p : p \in SeqsUpTo(PathNames, MaxPathLen - 1)}
\* the modules a declared function is hosted in: the declaring module, or the
\* prelude module it is imported from
Hosts(module) == {module, PRELUDE}
\* Visibility::from_public_flag
from_public_flag(module, public) == IF public THEN Public ELSE Project(module)
Roots == {m \in ModuleKeys : NS(m).kind[1] = "Root"}
NoQuery == [op |-> "none"]
\* The module table is built during the declaration phase and read-only during
\* resolution: a run builds the table and then records one query on it.
Declaring == res = NoQuery
Size == Len(modules) + ndecl + (IF project = UNSET_PROJECT THEN 0 ELSE 1)

\* ------------------------------------------------------------ construction

\* Lookups::new
Init ==
    /\ modules = <<>>
    /\ project = UNSET_PROJECT
    /\ libs = [s \in LibSections |-> EmptyMap]
    /\ ndecl = 0
    /\ declared = <<>>
    /\ res = NoQuery
    /\ branching = Idle /\ merge = Idle
    /\ matching = Idle /\ lower = Idle

\* Map::push returns the key of the pushed element
Push(namespaces) == Append(modules, namespaces)

\* a root module made its own parent
NewRootModuleOfItself(parent) ==
    /\ Declaring
    /\ Size < MaxOps
    /\ Len(modules) < MaxModules
    /\ modules' = Push([DefaultNamespaces EXCEPT !.kind = RootKind(Some(Len(modules)))])
    /\ res' = NoQuery
    /\ UNCHANGED <<project, libs, ndecl, declared>>

NewRootModule(parent) ==
    /\ Declaring
    /\ Size < MaxOps
    /\ Len(modules) < MaxModules
    /\ modules' = Push([DefaultNamespaces EXCEPT !.kind = RootKind(parent)])
    /\ res' = NoQuery
    /\ UNCHANGED <<project, libs, ndecl, declared>>

NewMemberModule(root) ==
    /\ Declaring
    /\ Size < MaxOps
    /\ Len(modules) < MaxModules
    /\ modules' = Push([DefaultNamespaces EXCEPT !.kind = MemberKind(root)])
    /\ res' = NoQuery
    /\ UNCHANGED <<project, libs, ndecl, declared>>

NewLib(in_, lib) ==
    /\ Declaring
    /\ Size < MaxOps
    /\ Len(modules) < MaxModules
    /\ modules' = Push(DefaultNamespaces)
    /\ libs' = [libs EXCEPT ![in_] = Insert(@, lib, Len(modules))]
    /\ res' = NoQuery
    /\ UNCHANGED <<project, ndecl, declared>>

\* the driver's assignment to the public field `project`
SetProject(m) ==
    /\ Declaring
    /\ Size < MaxOps
    /\ project = UNSET_PROJECT
    /\ project' = m
    /\ res' = NoQuery
    /\ UNCHANGED <<modules, libs, ndecl, declared>>

\* insert that puts every entity into the function namespace
insert_into_funcs(m, name, namespaces, field) ==
    [namespaces EXCEPT !.funcs = Insert(@, name, m)]

\* insert that keeps the binding a name already has
insert_keeps_first(m, name, namespaces, field) ==
    IF name \in DOMAIN namespaces[field] THEN namespaces
    ELSE [namespaces EXCEPT ![field] = Insert(@, name, m)]

\* EntityT::insert as impl_entityt! defines it for NFunc (funcs) and
\* key::TypeKind (types): the namespaces after `namespaces.$field.insert(name, m)`
insert(m, name, namespaces, field) ==
    [namespaces EXCEPT ![field] = Insert(@, name, m)]

\* what HashMap::insert, and so EntityT::insert and declare, returns: the
\* binding the name had in that map
previous(name, namespaces, field) == Get(namespaces[field], name)

\* declare::<T>; the entity is the next key the caller allocates
declare(field, module, visibility, name, dstmodule) ==
    /\ Declaring
    /\ Size < MaxOps
    /\ ndecl < MaxDecls
    /\ LET m == Mod(visibility, dstmodule, ndecl) IN
       modules' = [modules EXCEPT ![module + 1] = insert(m, name, @, field)]
    /\ ndecl' = ndecl + 1
    /\ declared' = Append(declared, [field |-> field, module |-> module,
                                     visibility |-> visibility, name |-> name,
                                     dst |-> dstmodule, key |-> ndecl,
                                     returned |-> previous(name, NS(module), field)])
    /\ res' = NoQuery
    /\ UNCHANGED <<project, libs>>

DeclareFunc(module, visibility, name, dstmodule) ==
    declare("funcs", module, visibility, name, dstmodule)

DeclareType(module, visibility, name, dstmodule) ==
    declare("types", module, visibility, name, dstmodule)

declare_module_link(module, visibility, name, dst) ==
    /\ Declaring
    /\ Size < MaxOps
    /\ ndecl < MaxDecls
    /\ LET m == Mod(visibility, module, dst) IN
       modules' = [modules EXCEPT ![module + 1].child_modules = Insert(@, name, m)]
    /\ ndecl' = ndecl + 1
    /\ declared' = Append(declared, [field |-> "child_modules", module |-> module,
                                     visibility |-> visibility, name |-> name,
                                     dst |-> module, key |-> dst,
                                     returned |-> None])
    /\ res' = NoQuery
    /\ UNCHANGED <<project, libs>>

\* `.entry(name).or_default().push(m)`
declare_accessor(module, visibility, name, type_, field) ==
    /\ Declaring
    /\ Size < MaxOps
    /\ ndecl < MaxDecls
    /\ LET m == Mod(visibility, module, <<type_, field>>)
           entry == IF name \in DOMAIN NS(module).accessors
                    THEN NS(module).accessors[name] ELSE <<>>
       IN  modules' = [modules EXCEPT ![module + 1].accessors =
                                          Insert(@, name, Append(entry, m))]
    /\ ndecl' = ndecl + 1
    /\ declared' = Append(declared, [field |-> "accessors", module |-> module,
                                     visibility |-> visibility, name |-> name,
                                     dst |-> module, key |-> <<type_, field>>,
                                     returned |-> None])
    /\ res' = NoQuery
    /\ UNCHANGED <<project, libs>>

\* ---------------------------------------------------------------- queries

\* `.get(name).map(Vec::as_ref).unwrap_or(&[])`
resolve_accessor(module, name) ==
    IF name \in DOMAIN NS(module).accessors THEN NS(module).accessors[name] ELSE <<>>

ResolveAccessor(module, name) ==
    /\ Declaring
    /\ res' = [op |-> "resolve_accessor", module |-> module, name |-> name,
               result |-> resolve_accessor(module, name)]
    /\ UNCHANGED <<modules, project, libs, ndecl, declared>>

\* The walk a resolve call makes, when it comes to walk the path: where it
\* starts, the path walked, the result of the origin-rooted resolve_in and the
\* result resolve_in gives from PRELUDE.
Walk(from, namespace, path, ignore_vis) ==
    LET start == start_at(from, path)
        igv == effective_ignore_vis(path, ignore_vis)
    IN  IF start[1] # "Ok" THEN None
        ELSE Some([module |-> start[2].module, path |-> start[2].path,
                   ignore_vis |-> igv,
                   first |-> resolve_in(from, namespace, start[2].module,
                                        start[2].path, igv),
                   prelude |-> resolve_in(from, namespace, PRELUDE,
                                          start[2].path, igv)])

Resolved(op, from, namespace, path, ignore_vis, result) ==
    /\ Declaring
    /\ res' = [op |-> op, from |-> from, namespace |-> namespace, path |-> path,
               ignore_vis |-> ignore_vis, result |-> result]
    /\ UNCHANGED <<modules, project, libs, ndecl, declared>>

ResolveFunc(from, path) ==
    Resolved("resolve", from, "Functions", path, FALSE, resolve_func(from, path))

ResolveType(from, path) ==
    Resolved("resolve", from, "Types", path, FALSE, resolve_type(from, path))

ResolveModule(from, path) ==
    Resolved("resolve", from, "Modules", path, FALSE, resolve_module(from, path))

ResolveLangitem(names) ==
    Resolved("resolve", project, "Functions", names, TRUE, resolve_langitem(names))

IsValidReachability(current, visibility) ==
    /\ Declaring
    /\ res' = [op |-> "is_valid_reachability", current |-> current,
               visibility |-> visibility,
               result |-> is_valid_reachability(current, visibility)]
    /\ UNCHANGED <<modules, project, libs, ndecl, declared>>

LibShouldBeIncluded(path) ==
    /\ Declaring
    /\ res' = [op |-> "lib_should_be_included", path |-> path,
               result |-> lib_should_be_included(path)]
    /\ UNCHANGED <<modules, project, libs, ndecl, declared>>

ResolveImport(from, name) ==
    /\ Declaring
    /\ res' = [op |-> "resolve_import", from |-> from, name |-> name,
               result |-> resolve_import(from, name)]
    /\ UNCHANGED <<modules, project, libs, ndecl, declared>>

TryNamespace(module, namespace, name) ==
    /\ Declaring
    /\ res' = [op |-> "try_namespace", module |-> module, namespace |-> namespace,
               name |-> name, result |-> try_namespace(NS(module), namespace, name)]
    /\ UNCHANGED <<modules, project, libs, ndecl, declared>>

\* ------------------------------------------------------------ specification

Next ==
    \/ /\ Declaring
       /\ UNCHANGED <<range_vars, pat_vars>>
       /\ \E parent \in {None} \cup {Some(p) : p \in Roots} : NewRootModule(parent)
    \/ /\ Declaring
       /\ UNCHANGED <<range_vars, pat_vars>>
       /\ \E root \in Roots : NewMemberModule(root)
    \/ /\ Declaring
       /\ UNCHANGED <<range_vars, pat_vars>>
       /\ \E in_ \in NewLibSections, lib \in LibNames : NewLib(in_, lib)
    \/ /\ Declaring
       /\ UNCHANGED <<range_vars, pat_vars>>
       /\ \E m \in Roots : SetProject(m)
    \/ /\ Declaring
       /\ UNCHANGED <<range_vars, pat_vars>>
       /\ \E module \in ModuleKeys, public \in BOOLEAN, name \in FuncNames :
            \E host \in Hosts(module) :
                DeclareFunc(module, from_public_flag(host, public), name, host)
    \/ /\ Declaring
       /\ UNCHANGED <<range_vars, pat_vars>>
       /\ \E module \in ModuleKeys, public \in BOOLEAN, name \in TypeNames :
            DeclareType(module, from_public_flag(module, public), name, module)
    \/ /\ Declaring
       /\ UNCHANGED <<range_vars, pat_vars>>
       /\ \E module \in ModuleKeys, public \in BOOLEAN, name \in LinkNames,
             dst \in ModuleKeys :
            declare_module_link(module, from_public_flag(module, public), name, dst)
    \/ /\ Declaring
       /\ UNCHANGED <<range_vars, pat_vars>>
       /\ \E from \in ModuleKeys, path \in Paths : ResolveFunc(from, path)
    \/ /\ Declaring
       /\ UNCHANGED <<range_vars, pat_vars>>
       /\ \E from \in ModuleKeys, path \in Paths : ResolveType(from, path)
    \/ /\ Declaring
       /\ UNCHANGED <<range_vars, pat_vars>>
       /\ \E from \in ModuleKeys, path \in Paths : ResolveModule(from, path)
    \/ /\ Declaring
       /\ UNCHANGED <<range_vars, pat_vars>>
       /\ \E names \in Paths : ResolveLangitem(names)
    \/ /\ Declaring
       /\ UNCHANGED <<range_vars, pat_vars>>
       /\ \E current \in ModuleKeys, m \in ModuleKeys, public \in BOOLEAN :
            IsValidReachability(current, from_public_flag(m, public))
    \/ /\ Declaring
       /\ UNCHANGED <<range_vars, pat_vars>>
       /\ \E module \in ModuleKeys, namespace \in Namespace,
             name \in PathNames \cup FuncNames :
            TryNamespace(module, namespace, name)
    \/ /\ Declaring
       /\ UNCHANGED <<range_vars, pat_vars>>
       /\ \E path \in Paths : LibShouldBeIncluded(path)
    \/ /\ Declaring
       /\ UNCHANGED <<range_vars, pat_vars>>
       /\ \E from \in ModuleKeys, name \in PathNames : ResolveImport(from, name)

Spec == Init /\ [][Next]_vars

\* The accessor lists: resolution never reads them, so they are built and
\* queried on module tables of their own.
NextAccessors ==
    \/ /\ Declaring
       /\ UNCHANGED <<range_vars, pat_vars>>
       /\ \E parent \in {None} \cup {Some(p) : p \in Roots} : NewRootModule(parent)
    \/ /\ Declaring
       /\ UNCHANGED <<range_vars, pat_vars>>
       /\ \E root \in Roots : NewMemberModule(root)
    \/ /\ Declaring
       /\ UNCHANGED <<range_vars, pat_vars>>
       /\ \E module \in ModuleKeys, public \in BOOLEAN, name \in AccessorNames,
             type_ \in Records, field \in RecordFields :
            declare_accessor(module, from_public_flag(module, public), name,
                             type_, field)
    \/ /\ Declaring
       /\ UNCHANGED <<range_vars, pat_vars>>
       /\ \E module \in ModuleKeys, name \in AccessorNames :
            ResolveAccessor(module, name)

SpecAccessors == Init /\ [][NextAccessors]_vars

\* ------------------------------------------------- decision trees (mir::pat)

\* TreeTail
Poison == <<"Poison">>
Unreached(excess) == <<"Unreached", excess>>
Reached(table, excess, tail) == <<"Reached", table, excess, tail>>

\* PointTable: the (bind, depth) pairs of a tail
PointTable(binds) == [binds |-> binds]

\* DecTree::End, DecTree::Wildcard
End(tail) == <<"End", tail>>
Wildcard(subtree) == <<"Wildcard", subtree>>

\* ------------------------------------------------ integer ranges (range.rs)

\* `1 << n`
RECURSIVE Pow2(_)
Pow2(n) == IF n = 0 THEN 1 ELSE 2 * Pow2(n - 1)

Constraints(min, max) == [min |-> min, max |-> max]
Range(con, start, end) == [con |-> con, start |-> start, end |-> end]

\* Constraints::to_range
to_range(con) == Range(con, con.min, con.max)

constraints_from_bitsize(signed, bitsize) ==
    LET max == IF signed THEN Pow2(bitsize - 1) - 1 ELSE Pow2(bitsize) - 1
        min == IF signed THEN (0 - max) - 1 ELSE 0
    IN  Constraints(min, max)

\* an arm of a Branching<Range>
Arm(range, subtree) == [range |-> range, next |-> subtree]

\* Vec::insert, Vec::remove, by 0-based index
VecInsert(v, i, x) == SubSeq(v, 1, i) \o <<x>> \o SubSeq(v, i + 1, Len(v))
VecRemove(v, i) == SubSeq(v, 1, i) \o SubSeq(v, i + 2, Len(v))

\* Merger::next on the subtree of an arm the incoming pattern covers: the
\* pattern's tail takes the place of an Unreached tail, which makes it
\* reachable; a tail reached by an earlier pattern is kept
RECURSIVE merger_next(_, _)
merger_next(t, incoming) ==
    IF t[1] = "Wildcard"
    THEN LET sub == merger_next(t[2], incoming) IN
         [next |-> Wildcard(sub.next), reachable |-> sub.reachable]
    ELSE IF t[2][1] = "Unreached"
         THEN [next |-> End(Reached(incoming.table, t[2][2], incoming.tail)),
               reachable |-> TRUE]
         ELSE [next |-> t, reachable |-> t[2][1] = "Poison"]

\* the outcome of a step on the arms: the arms, the reachability found, and
\* whether the step aborted (expect, assert, unreachable!)
Outcome(branches, reachable, aborted) ==
    [branches |-> branches, reachable |-> reachable, aborted |-> aborted]

\* the left piece, ending at `start` itself
untouched_left_to_start(range, start, subtree) ==
    Arm(Range(range.con, range.start, start), subtree)

\* `Range::new(range.con, range.start, start - 1)` with a clone of the subtree
untouched_left(range, start, subtree) ==
    Arm(Range(range.con, range.start, start - 1), subtree)

\* the right piece, with a fresh unreached leaf in place of the clone
untouched_right_unreached(range, end, subtree) ==
    Arm(Range(range.con, end + 1, range.end), End(Unreached(<<>>)))

\* `Range::new(range.con, end + 1, range.end)` with a clone of the subtree
untouched_right(range, end, subtree) ==
    Arm(Range(range.con, end + 1, range.end), subtree)

RECURSIVE merge_int_at(_, _, _, _, _)
merge_int_at(i, branches, start, end, incoming) ==
    IF i >= Len(branches) THEN Outcome(branches, FALSE, TRUE)
    ELSE IF ~(start <= end) THEN Outcome(branches, FALSE, TRUE)
    ELSE
    LET range == branches[i + 1].range
        excluded == end < range.start \/ start > range.end
    IN  IF excluded THEN merge_int_at(i + 1, branches, start, end, incoming)
        ELSE IF start < range.start THEN Outcome(branches, FALSE, TRUE)
        ELSE
        LET \* `match start.cmp(&range.start)`, Ordering::Greater
            left == IF start > range.start
                    THEN [VecInsert(branches, i,
                                    untouched_left(range, start, branches[i + 1].next))
                             EXCEPT ![i + 2].range.start = start]
                    ELSE branches
            j == IF start > range.start THEN i + 1 ELSE i
            range2 == left[j + 1].range
            \* `match end.cmp(&range.end)`
            right == IF end < range2.end
                     THEN Outcome([VecInsert(left, j + 1,
                                             untouched_right(range2, end, left[j + 1].next))
                                      EXCEPT ![j + 1].range.end = end],
                                  FALSE, FALSE)
                     ELSE IF end = range2.end THEN Outcome(left, FALSE, FALSE)
                     ELSE merge_int_at(j + 1, left, range2.end + 1, end, incoming)
            merged == merger_next(right.branches[j + 1].next, incoming)
        IN  IF right.aborted THEN right
            ELSE Outcome([right.branches EXCEPT ![j + 1].next = merged.next],
                         right.reachable \/ merged.reachable, FALSE)

\* the loop of cleanup_edges_if_at_end, from index i on
RECURSIVE cleanup_edges_from(_, _)
cleanup_edges_from(i, branches) ==
    IF i >= Len(branches) THEN Outcome(branches, FALSE, FALSE)
    ELSE
    LET left == branches[i].next
        right == branches[i + 1].next
        joined == [VecRemove(branches, i)
                      EXCEPT ![i].range.end = branches[i + 1].range.end]
    IN  IF left[1] = "End" /\ right[1] = "End"
        THEN IF /\ left[2][1] = "Reached" /\ right[2][1] = "Reached"
                /\ left[2][2] = right[2][2] /\ left[2][4] = right[2][4]
             THEN IF Len(left[2][3]) # Len(right[2][3])
                  THEN Outcome(branches, FALSE, TRUE)
                  ELSE cleanup_edges_from(i, joined)
             ELSE IF left[2][1] = "Unreached" /\ right[2][1] = "Unreached"
             THEN cleanup_edges_from(i,
                    [joined EXCEPT ![i].next = End(Unreached(left[2][2] \o right[2][2]))])
             ELSE cleanup_edges_from(i + 1, branches)
        ELSE Outcome(branches, FALSE, FALSE)

cleanup_edges_if_at_end(branches) == cleanup_edges_from(1, branches)

merge_int(branches, start, end, incoming) ==
    LET at == merge_int_at(0, branches, start, end, incoming)
        cleaned == cleanup_edges_if_at_end(at.branches)
    IN  IF at.aborted THEN at
        ELSE Outcome(cleaned.branches, at.reachable, cleaned.aborted)

\* parser::pat::Bound
Excess == <<"Excess">>
Neg(n) == <<"Neg", n>>
Pos(n) == <<"Pos", n>>

\* the bounds a range pattern is written with
Bounds == {Excess, Neg(1), Pos(0), Pos(2), Pos(Pow2(Bits))}

\* the tail of the pattern a merge brings in: a tail of its own, or the tail of
\* an earlier alternative of the same arm
Incoming == {[table |-> PointTable(<<>>), tail |-> k] : k \in 0 .. (MaxMerges - 1)}

\* the subtree under the complete arm a Branching<Range> starts from
FirstSubtrees == {End(Unreached(<<>>)), Wildcard(End(Unreached(<<>>)))}

\* a Branching<Range> as it is generated from the type: one arm, the whole domain
InitRange ==
    /\ modules = <<>> /\ project = UNSET_PROJECT
    /\ libs = [s \in LibSections |-> EmptyMap]
    /\ ndecl = 0 /\ declared = <<>> /\ res = NoQuery
    /\ matching = Idle /\ lower = Idle
    /\ merge = Idle
    /\ \E signed \in BOOLEAN, subtree \in FirstSubtrees :
         LET con == constraints_from_bitsize(signed, Bits) IN
         branching = [phase |-> "arms", con |-> con, merges |-> 0,
                 branches |-> <<Arm(to_range(con), subtree)>>]

\* a call that goes through merge_int, and what it leaves
Merged(start, end, incoming, out) ==
    /\ branching' = IF out.aborted THEN [branching EXCEPT !.phase = "aborted"]
               ELSE [branching EXCEPT !.branches = out.branches, !.merges = @ + 1]
    /\ merge' = [phase |-> "merged", start |-> start, end |-> end,
                 incoming |-> incoming, before |-> branching.branches,
                 reachable |-> out.reachable, aborted |-> out.aborted]
    /\ UNCHANGED <<resolver_vars, pat_vars>>

MergeInt(start, end, incoming) ==
    /\ branching.phase = "arms"
    /\ branching.merges < MaxMerges
    /\ Merged(start, end, incoming, merge_int(branching.branches, start, end, incoming))

\* `match bounds[k]`
bound_or(bound, excess) ==
    CASE bound[1] = "Excess" -> excess
      [] bound[1] = "Neg" -> 0 - bound[2]
      [] bound[1] = "Pos" -> bound[2]

merge_int_bounds(signed, bitsize, branches, bounds, incoming) ==
    LET con == constraints_from_bitsize(signed, bitsize)
        start == bound_or(bounds[1], con.min)
        end == bound_or(bounds[2], con.max)
    IN  IF \E k \in 1 .. Len(branches) : branches[k].range.con # con
        THEN Outcome(branches, TRUE, FALSE)
        ELSE IF start > end THEN Outcome(branches, FALSE, TRUE)
        ELSE merge_int(branches, start, end, incoming)

MergeIntBounds(signed, bitsize, bounds, incoming) ==
    /\ branching.phase = "arms"
    /\ branching.merges < MaxMerges
    /\ LET con == constraints_from_bitsize(signed, bitsize) IN
       Merged(bound_or(bounds[1], con.min), bound_or(bounds[2], con.max), incoming,
              merge_int_bounds(signed, bitsize, branching.branches, bounds, incoming))

NextRange ==
    \/ \E start \in branching.con.min .. branching.con.max, end \in branching.con.min .. branching.con.max,
          incoming \in Incoming :
         start <= end /\ MergeInt(start, end, incoming)
    \/ \E signed \in BOOLEAN, lower_bound \in Bounds, upper_bound \in Bounds,
          incoming \in Incoming :
         MergeIntBounds(signed, Bits, <<lower_bound, upper_bound>>, incoming)

SpecRange == InitRange /\ [][NextRange]_vars

\* ------------------------------------------- pattern lowering (lir/pat.rs)

\* DecTree nodes; the field count of a Record or Tuple and the parameter counts
\* of the variants of a Sum are what the types of the scrutinee give
Record(fields, subtree) == <<"Record", fields, subtree>>
Tuple(fields, subtree) == <<"Tuple", fields, subtree>>
List(branches) == <<"List", branches>>
Ints(branches) == <<"Ints", branches>>
Bools(branches) == <<"Bools", branches>>
Sum(variant_types, branches) == <<"Sum", variant_types, branches>>
String(branches, wildcard_next) == <<"String", branches, wildcard_next>>
Opaque(subtree) == <<"Opaque", subtree>>

\* ssa::Value, ssa::Block: values are numbered as they are defined
Value(n) == <<"v", n>>
ValueInt(n) == <<"Int", n>>
BlockParam(b, i) == <<"bparam", b, i>>
Block(params) == [params |-> params, typed |-> 0, code |-> <<>>]

\* a panic (index out of bounds, unwrap, assert, unreachable!) ends the lowering
Abort(L, why) == [L EXCEPT !.aborted = TRUE, !.events = Append(@, <<"abort", why>>)]

\* ssa::Blocks: new_block(n) appends a block with n parameters and returns it
new_block(L, params) == [L EXCEPT !.blocks = Append(@, Block(params))]
switch_to_block(L, b) == [L EXCEPT !.cur = b]

\* an instruction is appended to the current block; its value is Value(L.nval)
emit(L, instr) ==
    [L EXCEPT !.blocks[L.cur + 1].code = Append(@, <<"let", L.nval, instr>>),
              !.nval = @ + 1]

\* the instructions that end a block: the kind, the blocks jumped to, the rest
terminate(L, flow) == [L EXCEPT !.blocks[L.cur + 1].code = Append(@, flow)]
jump(L, b, params) == terminate(L, <<"jump", <<b>>, params>>)
select(L, v, on_true, on_false) == terminate(L, <<"select", <<on_true, on_false>>, v>>)
jump_table(L, v, blocks) == terminate(L, <<"jump_table", blocks, v>>)
\* what the comparisons compute: `lti` is less-than, `gti` greater-than
eq(a, b) == a = b
lti(a, b) == a < b
gti(a, b) == a > b
bit_and(a, b) == a /\ b

Terminators == {"jump", "select", "jump_table", "return"}

\* the jumps into block b
predecessors(L, b) ==
    Cardinality({x \in UNION {UNION {{<<i, j, k>> : k \in 1 .. Len(L.blocks[i].code[j][2])}
                                     : j \in {n \in 1 .. Len(L.blocks[i].code) :
                                                L.blocks[i].code[n][1] \in Terminators
                                                    \ {"return"}}}
                              : i \in 1 .. Len(L.blocks)} :
                    L.blocks[x[1]].code[x[2]][2][x[3]] = b})

\* add_block_param types the next parameter of the block and returns it
add_block_param(L, b) ==
    [L EXCEPT !.blocks[b + 1].typed = @ + 1,
              !.blocks[b + 1].params = IF @ > L.blocks[b + 1].typed THEN @ ELSE @ + 1]

\* FuncLower::expr_to_value on the body of a branch: the body's instructions go
\* to the current block, the last of them defines its value
expr_to_value(L, expr) == emit(L, <<"body", expr>>)

\* FuncLower::to_pat_lower, with the function being lowered
to_pat_lower(f, branches, pred) ==
    [blocks |-> f.blocks, cur |-> f.cur, nval |-> f.nval, bindmap |-> f.bindmap,
     continuation_block |-> None, continuation_value |-> None,
     expressions |-> [t \in DOMAIN branches |-> None],
     branches |-> branches, predecessors |-> pred,
     constructors |-> <<>>, map |-> <<>>,
     can_skip_continuation |-> TRUE,
     jmp_table_blocks |-> <<>>, phase |-> "made",
     aborted |-> FALSE, returned |-> None, events |-> <<>>]

ResetPoint(constructors, valuemap) == [constructors |-> constructors, map |-> valuemap]
make_reset(L) == ResetPoint(L.constructors, L.map)
\* the block switched to, the snapshot left aside
reset_block_only(L, b, point) == switch_to_block(L, b)

\* the log entry of an arm whose lowering starts: the node it belongs to, the
\* constructors and the map it starts with, how many of the constructor
\* queues the arm itself has brought, and can_skip_continuation
enter_arm(L, node, own) ==
    [L EXCEPT !.events = Append(@, <<"arm", node, L.constructors, L.map, own,
                                     L.can_skip_continuation>>)]

reset(L, b, point) ==
    [switch_to_block(L, b) EXCEPT !.map = point.map, !.constructors = point.constructors]

get_continuation(L) ==
    IF L.continuation_block # None THEN L
    ELSE [new_block(L, 1) EXCEPT
            !.continuation_block = Some(Len(L.blocks)),
            !.events = Append(@, <<"continuation", Len(L.blocks), L.can_skip_continuation,
                                   L.continuation_value>>)]

RECURSIVE tree(_, _, _)
RECURSIVE next(_, _)
RECURSIVE ints_from(_, _, _, _, _)
RECURSIVE sum_from(_, _, _, _, _, _, _)
RECURSIVE string_from(_, _, _, _, _)

\* the body of `if pred == self.predecessors[tail]`: the binds become block
\* parameters, the body of the branch is lowered into the block
lower_expr_branch(L, id, table) ==
    LET branch_expr_block == L.expressions[id][2]
        binds == table.binds
        typed == L.blocks[branch_expr_block + 1].typed
        L1 == [L EXCEPT
                 !.blocks[branch_expr_block + 1].typed = @ + Len(binds),
                 !.blocks[branch_expr_block + 1].params =
                     IF @ >= typed + Len(binds) THEN @ ELSE typed + Len(binds),
                 !.bindmap = [b \in DOMAIN @ \cup {binds[k][1] : k \in 1 .. Len(binds)} |->
                                IF \E k \in 1 .. Len(binds) : binds[k][1] = b
                                THEN LET last == CHOOSE k \in 1 .. Len(binds) :
                                                   /\ binds[k][1] = b
                                                   /\ \A n \in 1 .. Len(binds) :
                                                        binds[n][1] = b => n <= k
                                     IN  BlockParam(branch_expr_block, typed + last - 1)
                                ELSE @[b]]]
        L2 == switch_to_block(L1, branch_expr_block)
        L3 == expr_to_value(L2, L.branches[id])
        v == Value(L2.nval)
        L4 == [L3 EXCEPT !.events = Append(@, <<"body", id, branch_expr_block,
                                               predecessors(L, branch_expr_block),
                                               L1.bindmap, L.can_skip_continuation,
                                               L.continuation_block>>)]
    IN  IF \E k \in 1 .. Len(binds) : binds[k][2] >= Len(L.map)
        THEN Abort(L, "map[depth]")
        ELSE IF L.can_skip_continuation
        THEN [L4 EXCEPT !.continuation_value = Some(v)]
        ELSE LET L5 == get_continuation(L4) IN
             jump(L5, L5.continuation_block[2], <<v>>)

lower_expr_branch_at_first_predecessor(L, id, table) ==
    IF predecessors(L, L.expressions[id][2]) = 1
    THEN lower_expr_branch(L, id, table)
    ELSE L

lower_expr_branch_if_last_predecessor(L, id, table) ==
    IF predecessors(L, L.expressions[id][2]) = L.predecessors[id]
    THEN lower_expr_branch(L, id, table)
    ELSE L

tail(L, t) ==
    IF L.aborted \/ t[1] # "Reached" THEN L
    ELSE
    LET table == t[2]
        id == t[4]
        binds == table.binds
        L1 == IF L.expressions[id] = None
              THEN [new_block(L, Len(binds)) EXCEPT !.expressions[id] = Some(Len(L.blocks))]
              ELSE L
        branch_expr_block == L1.expressions[id][2]
        branch_expr_params == [k \in 1 .. Len(binds) |-> L1.map[binds[k][2] + 1]]
        L2 == jump(L1, branch_expr_block, branch_expr_params)
        L3 == [L2 EXCEPT !.events = Append(@, <<"tail", id, branch_expr_block, L.cur,
                                               L.expressions[id] = None, L.map>>)]
    IN  IF id \notin DOMAIN L.expressions THEN Abort(L, "expressions[tail]")
        ELSE IF \E k \in 1 .. Len(binds) : binds[k][2] >= Len(L.map)
        THEN Abort(L1, "map[depth]")
        ELSE lower_expr_branch_if_last_predecessor(L3, id, table)

next(L, t) ==
    IF L.aborted THEN L
    ELSE IF L.constructors # <<>>
    THEN LET params == L.constructors[Len(L.constructors)] IN
         IF params # <<>>
         THEN tree([L EXCEPT !.constructors[Len(L.constructors)] = Tail(params)],
                   Head(params), t)
         ELSE next([L EXCEPT !.constructors = SubSeq(@, 1, Len(@) - 1)], t)
    ELSE IF t[1] = "End" THEN tail(L, t[2])
    ELSE Abort(L, "misaligned constructor ordering")

\* the instructions in `instrs` emitted in order
RECURSIVE emit_all(_, _)
emit_all(L, instrs) ==
    IF instrs = <<>> THEN L ELSE emit_all(emit(L, Head(instrs)), Tail(instrs))

\* PatLower::record and PatLower::tuple: one field read per field of the type
record(L, on, fields, subtree) ==
    LET constructor == [k \in 1 .. fields |-> Value(L.nval + k - 1)]
        L1 == emit_all(L, [k \in 1 .. fields |-> <<"field", on, k - 1>>])
    IN  next([L1 EXCEPT !.constructors = Append(@, constructor)], subtree)

tuple(L, on, fields, subtree) ==
    LET constructor == [k \in 1 .. fields |-> Value(L.nval + k - 1)]
        L1 == emit_all(L, [k \in 1 .. fields |-> <<"field", on, k - 1>>])
    IN  next([L1 EXCEPT !.constructors = Append(@, constructor)], subtree)

\* the loop of PatLower::ints from arm i on
ints_from(L, on, branches, i, resetpoint) ==
    IF L.aborted \/ i > Len(branches) THEN L
    ELSE
    LET arm == branches[i]
        L1 == new_block(new_block(L, 0), 0)
        on_true == Len(L.blocks)
        on_false == Len(L.blocks) + 1
        single == arm.range.end = arm.range.start
        L2 == IF single
              THEN emit(L1, <<"eq", on, ValueInt(arm.range.end)>>)
              ELSE emit(L1, <<"lti", on, ValueInt(arm.range.end)>>)
        L3 == IF ~single /\ arm.range.con.min # arm.range.start
              THEN emit(emit(L2, <<"gti", on, ValueInt(arm.range.start)>>),
                        <<"bit_and", Value(L2.nval - 1), Value(L2.nval)>>)
              ELSE L2
        check == Value(L3.nval - 1)
        L4 == [select(L3, check, on_true, on_false) EXCEPT
                 !.events = Append(@, <<"ints", arm.range, check, on, L.cur, on_true>>)]
        L5 == next(enter_arm(switch_to_block(L4, on_true), <<"ints", on>>, 0), arm.next)
    IN  IF arm.range.end = arm.range.con.max
        THEN next(enter_arm(L, <<"ints", on>>, 0), arm.next)
        ELSE ints_from(reset(L5, on_false, resetpoint), on, branches, i + 1, resetpoint)

\* the arms lowered with can_skip_continuation as it was
ints_on_the_fast_path(L, on, branches) ==
    ints_from(L, on, branches, 1, make_reset(L))

ints(L, on, branches) ==
    LET L1 == [L EXCEPT !.can_skip_continuation = @ /\ Len(branches) = 1] IN
    ints_from(L1, on, branches, 1, make_reset(L1))

\* PatLower::bools from the reset point on, the arms told apart
bools_arms(L0, on, branches, truthy, falsey) ==
    LET resetpoint == make_reset(L0)
        L1 == new_block(new_block(L0, 0), 0)
        on_true == Len(L0.blocks)
        on_false == Len(L0.blocks) + 1
        L2 == [select(L1, on, on_true, on_false) EXCEPT
                 !.events = Append(@, <<"bools", on, L0.cur, on_true, on_false, branches>>)]
        L3 == next(enter_arm(switch_to_block(L2, on_true), <<"bools", on>>, 0), truthy[2])
    IN  next(enter_arm(reset(L3, on_false, resetpoint), <<"bools", on>>, 0), falsey[2])

bools_in_the_order_given(L, on, branches) ==
    LET L0 == [L EXCEPT !.can_skip_continuation = FALSE] IN
    IF Len(branches) # 2 THEN Abort(L0, "incorrect bool count")
    ELSE bools_arms(L0, on, branches, branches[1], branches[2])

bools(L, on, branches) ==
    LET L0 == [L EXCEPT !.can_skip_continuation = FALSE]
        fst == branches[1]
        snd == branches[2]
        truthy == IF fst[1] THEN fst ELSE snd
        falsey == IF fst[1] THEN snd ELSE fst
    IN  IF Len(branches) # 2 THEN Abort(L0, "incorrect bool count")
        ELSE bools_arms(L0, on, branches, truthy, falsey)

\* mir::pat::LIST_CONS, mir::pat::LIST_NIL
LIST_CONS == 0
LIST_NIL == 1

\* the closure PatLower::list maps over [LIST_CONS, LIST_NIL]
list_constr(L, oblock, data, constr, branches) ==
    LET L1 == switch_to_block(new_block(L, 0), Len(L.blocks))
        resetpoint == make_reset(L1)
        L2 == IF constr = LIST_CONS
              THEN emit(emit(L1, <<"sum_field", data, 0>>), <<"sum_field", data, 1>>)
              ELSE L1
        vparams == IF constr = LIST_CONS THEN <<Value(L1.nval), Value(L1.nval + 1)>>
                   ELSE <<>>
        L3 == [L2 EXCEPT !.constructors = Append(@, vparams)]
        found == {k \in 1 .. Len(branches) : branches[k][1] = constr}
        first == CHOOSE k \in found : \A n \in found : k <= n
    IN  IF L.aborted THEN L
        ELSE IF found = {} THEN Abort(L3, "unwrap")
        ELSE reset(next(enter_arm(L3, <<"list", data>>, 1), branches[first][2]),
                   oblock, resetpoint)

list(L, on, branches) ==
    LET L0 == [L EXCEPT !.can_skip_continuation = FALSE]
        oblock == L.cur
        maybe == Value(L.nval)
        tag == Value(L.nval + 1)
        data == Value(L.nval + 2)
        is_just == Value(L.nval + 3)
        L1 == emit_all(L0, << <<"call", "split", on>>, <<"field", maybe, 0>>,
                              <<"field", maybe, 1>>, <<"eq", tag, <<"maybe_just">> >> >>)
        con_block == Len(L1.blocks)
        L2 == list_constr(L1, oblock, data, LIST_CONS, branches)
        nil_block == Len(L2.blocks)
        L3 == list_constr(L2, oblock, data, LIST_NIL, branches)
    IN  IF L3.aborted THEN L3 ELSE select(L3, is_just, con_block, nil_block)

\* the fold of PatLower::string_branch over the checks from check i on
RECURSIVE string_checks(_, _, _, _, _)
string_checks(L, on, falsely, checks, i) ==
    IF L.aborted \/ i > Len(checks) THEN L
    ELSE
    LET check == checks[i]
        is_last == i = Len(checks)
        v == Value(L.nval)
        \* a check that can fail ends the block with a select on `ok`
        guarded(L1, ok) ==
            LET next_check_block == Len(L1.blocks) IN
            switch_to_block(select(new_block(L1, 0), ok, next_check_block, falsely),
                            next_check_block)
        push(L1, x) == [L1 EXCEPT !.map = Append(@, x)]
    IN  IF check = "Literal"
        THEN LET str == v IN
             IF is_last
             THEN guarded(push(emit_all(L, << <<"string_from_ro">>,
                                              <<"string_equals", on, str>> >>), str),
                          Value(L.nval + 1))
             ELSE string_checks(
                    guarded(push(emit_all(L, << <<"string_from_ro">>,
                                                <<"string_split_at", on, "lhs">>,
                                                <<"string_split_at", on, "rhs">>,
                                                <<"string_equals", Value(L.nval + 1), str>> >>),
                                 str),
                            Value(L.nval + 3)),
                    Value(L.nval + 2), falsely, checks, i + 1)
        ELSE IF check = "Take"
        THEN string_checks(
               guarded(push(emit_all(L, << <<"uint">>,
                                           <<"string_split_at", on, "lhs">>,
                                           <<"string_split_at", on, "rhs">>,
                                           <<"string_len", Value(L.nval + 1)>>,
                                           <<"eq", v, Value(L.nval + 3)>> >>),
                            Value(L.nval + 1)),
                       Value(L.nval + 4)),
               Value(L.nval + 2), falsely, checks, i + 1)
        ELSE IF check = "TakeExcess"
        THEN IF is_last THEN push(L, on) ELSE Abort(L, "assert is_last")
        ELSE IF check = "TakeByte"
        THEN string_checks(
               guarded(push(emit_all(L, << <<"string_split_first", on, "x">>,
                                           <<"string_split_first", on, "xs">>,
                                           <<"eq", v, ValueInt(0)>> >>),
                            v),
                       Value(L.nval + 2)),
               Value(L.nval + 1), falsely, checks, i + 1)
        ELSE \* TakeWhileLocal, TakeWhileFunc, TakeWhileLambda
             string_checks(
               push(emit_all(L, << <<"string_split_while", on, "lhs">>,
                                   <<"string_split_while", on, "rhs">> >>), v),
               Value(L.nval + 1), falsely, checks, i + 1)

\* the subtree of the arm entered with none of its checks made
string_branch_unchecked(L, on, falsely, checks, subtree) ==
    next([L EXCEPT !.events = Append(@, <<"string_branch", falsely, L.cur>>)], subtree)

string_branch(L, on, falsely, checks, subtree) ==
    LET L1 == [string_checks(L, on, falsely, checks, 1) EXCEPT
                 !.events = Append(@, <<"string_branch", falsely, L.cur>>)]
    IN  next(L1, subtree)

\* the loop of PatLower::string from arm i on
string_from(L, on, branches, i, resetpoint) ==
    IF L.aborted \/ i > Len(branches) THEN L
    ELSE LET falsely == Len(L.blocks)
             L1 == string_branch(enter_arm(new_block(L, 0), <<"string", on>>, 0), on, falsely,
                                 branches[i][1], branches[i][2])
         IN  string_from(reset(L1, falsely, resetpoint), on, branches, i + 1, resetpoint)

string(L, on, branches, wc_next) ==
    LET L1 == [L EXCEPT !.map = SubSeq(@, 1, Len(@) - 1),
                        !.can_skip_continuation = FALSE]
    IN  next(enter_arm(string_from(L1, on, branches, 1, make_reset(L1)),
                       <<"string", on>>, 0),
             wc_next)

\* the closure PatLower::sum maps over the branches, from branch i on;
\* `blocks` are the variant blocks made so far
sum_from(L, oblock, data_field, variant_types, branches, i, blocks) ==
    IF L.aborted THEN L
    ELSE IF i > Len(branches) THEN [L EXCEPT !.jmp_table_blocks = blocks]
    ELSE
    LET var == branches[i][1]
        vblock == Len(L.blocks)
        L1 == switch_to_block(new_block(L, 0), vblock)
        resetpoint == make_reset(L1)
        raw_var_types == variant_types[var + 1]
        params == [k \in 1 .. raw_var_types |-> Value(L1.nval + k - 1)]
        L2 == emit_all(L1, [k \in 1 .. raw_var_types |-> <<"sum_field", data_field, k - 1>>])
        L3 == [L2 EXCEPT !.constructors = Append(@, params)]
    IN  IF var + 1 \notin DOMAIN variant_types THEN Abort(L1, "variant_types[sum][var]")
        ELSE sum_from(reset(next(enter_arm(L3, <<"sum", data_field>>, 1), branches[i][2]),
                            oblock, resetpoint),
                      oblock, data_field, variant_types, branches, i + 1,
                      Append(blocks, vblock))

sum(L, on, variant_types, branches) ==
    LET L0 == [L EXCEPT !.can_skip_continuation = @ /\ Len(branches) = 1]
        oblock == L.cur
        copy_tag == Value(L.nval)
        data_field == Value(L.nval + 1)
        L1 == emit_all(L0, << <<"field", on, 0>>, <<"field", on, 1>> >>)
        sorted == \A k \in 1 .. Len(branches) - 1 : branches[k][1] = branches[k + 1][1] - 1
        L2 == sum_from(L1, oblock, data_field, variant_types, branches, 1, <<>>)
    IN  IF ~sorted THEN Abort(L1, "sum variants in decision tree are meant to be sorted")
        ELSE IF L2.aborted THEN L2
        ELSE [jump_table(L2, copy_tag, L2.jmp_table_blocks) EXCEPT
                !.events = Append(@, <<"sum", oblock, branches[1][1]>>)]

tree(L, on, t) ==
    IF L.aborted THEN L
    ELSE
    LET L1 == [L EXCEPT !.map = Append(@, on)] IN
    CASE t[1] = "Record" -> record(L1, on, t[2], t[3])
      [] t[1] = "Tuple" -> tuple(L1, on, t[2], t[3])
      [] t[1] = "List" -> list(L1, on, t[2])
      [] t[1] = "Ints" -> ints(L1, on, t[2])
      [] t[1] = "Bools" -> bools(L1, on, t[2])
      [] t[1] = "Sum" -> sum(L1, on, t[2], t[3])
      [] t[1] = "String" -> string(L1, on, t[2], t[3])
      [] t[1] \in {"Wildcard", "Opaque"} -> next(L1, t[2])
      [] t[1] = "End" -> tail(L1, t[2])

\* PatLower::run
run(L, on, t) ==
    LET L1 == tree(L, on, t)
        block == L1.continuation_block[2]
        L2 == add_block_param(switch_to_block(L1, block), block)
    IN  IF L1.aborted THEN L1
        ELSE IF L1.can_skip_continuation
        THEN IF L1.continuation_block # None THEN Abort(L1, "assert_eq")
             ELSE IF L1.continuation_value = None THEN Abort(L1, "unwrap")
             ELSE [L1 EXCEPT !.returned = L1.continuation_value]
        ELSE IF L1.continuation_value # None THEN Abort(L1, "assert_eq")
        ELSE IF L1.continuation_block = None THEN Abort(L1, "unwrap")
        ELSE [L2 EXCEPT !.continuation_block = None,
                        !.returned = Some(BlockParam(block, 0))]

\* ------------------------------------------------- the matches lowered

Tails == 0 .. MaxTails - 1

\* the bodies of the branches, by tail
Branches == [i \in Tails |-> <<"expr", i>>]

\* the tables of the tails: no binding, or a binding of the scrutinee
Binds == {<<>>, << <<0, 0>> >>}

Leaves(binds) == {End(Reached(PointTable(binds), <<>>, i)) : i \in Tails}

\* the arms of an integer match tile the domain of the type, in order
Layouts(con) ==
    { << <<con.min, con.max>> >>,
      << <<con.min, con.min>>, <<con.min + 1, con.max>> >>,
      << <<con.min, con.min + 1>>, <<con.min + 2, con.max>> >>,
      << <<con.min, con.min>>, <<con.min + 1, con.max - 1>>, <<con.max, con.max>> >>,
      << <<con.min, con.min + 1>>, <<con.min + 2, con.max - 1>>, <<con.max, con.max>> >> }

IntsOver(S) ==
    UNION {UNION {{Ints([k \in 1 .. Len(lay) |->
                           Arm(Range(con, lay[k][1], lay[k][2]), c[k])])
                   : c \in [1 .. Len(lay) -> S]}
                  : lay \in Layouts(con)}
           : con \in {constraints_from_bitsize(signed, Bits) : signed \in BOOLEAN}}

\* the arm that ends the domain declared before another one
UnsortedInts(S) ==
    UNION {{Ints(<<Arm(Range(con, con.min + 1, con.max), c1),
                   Arm(Range(con, con.min, con.min), c2)>>) : c1 \in S, c2 \in S}
           : con \in {constraints_from_bitsize(signed, Bits) : signed \in BOOLEAN}}

BoolsOver(S) ==
    {Bools(<< <<b, c1>>, <<~b, c2>> >>) : b \in BOOLEAN, c1 \in S, c2 \in S}

\* a Bools node that does not have its two arms
MalformedBools(S) ==
    {Bools(<< <<b, c>> >>) : b \in BOOLEAN, c \in S}
        \cup {Bools(<< <<TRUE, c>>, <<FALSE, c>>, <<b, c>> >>) : b \in BOOLEAN, c \in S}

SumsOver(S) ==
    {Sum(<<0>>, << <<0, c>> >>) : c \in S}
        \cup {Sum(<<1>>, << <<0, Wildcard(c)>> >>) : c \in S}
        \cup {Sum(<<0, 1>>, << <<0, c1>>, <<1, Wildcard(c2)>> >>) : c1 \in S, c2 \in S}

\* Sum nodes whose branches leave out variant 0, and whose branches are not
\* in the order of the variants
SumsFromVariantOne(S) ==
    {Sum(<<0, 1>>, << <<1, Wildcard(c)>> >>) : c \in S}
        \cup {Sum(<<0, 0, 1>>, << <<1, c1>>, <<2, Wildcard(c2)>> >>) : c1 \in S, c2 \in S}
UnsortedSums(S) ==
    {Sum(<<0, 1>>, << <<1, Wildcard(c2)>>, <<0, c1>> >>) : c1 \in S, c2 \in S}
        \cup {Sum(<<0, 0, 1>>, << <<0, c1>>, <<2, Wildcard(c2)>> >>) : c1 \in S, c2 \in S}

ListsOver(S) ==
    {List(<< <<LIST_CONS, Wildcard(Wildcard(c1))>>, <<LIST_NIL, c2>> >>) : c1 \in S, c2 \in S}
        \cup {List(<< <<LIST_NIL, c2>>, <<LIST_CONS, Wildcard(Opaque(c1))>> >>)
              : c1 \in S, c2 \in S}

StrChecks ==
    {<<"Literal">>, <<"Take", "TakeExcess">>, <<"TakeByte", "Literal">>,
     <<"TakeWhileLocal", "Literal">>, <<"Literal", "TakeExcess">>}

\* a TakeExcess that is not the last check of its arm
MisplacedTakeExcess(S) ==
    {String(<< <<<<"TakeExcess", "Literal">>, c1>> >>, c2) : c1 \in S, c2 \in S}
        \cup {String(<< <<<<"Literal">>, c1>>, <<<<"TakeExcess", "TakeByte">>, c2>> >>, c3)
              : c1 \in S, c2 \in S, c3 \in S}

\* string matches whose arms bind: the arm of the checks the value at the depth
\* of the string, the fallthrough arm that value or none
StringsBinding ==
    {String(<< <<checks, c1>> >>, c2) :
         checks \in {<<"Literal">>, <<"TakeByte", "TakeExcess">>},
         c1 \in Leaves(<< <<0, 0>> >>), c2 \in Leaves(<< <<0, 0>> >>)}
      \cup {t \in {String(<< <<checks, c1>> >>, c2) :
                     checks \in {<<"Literal">>, <<"TakeByte", "TakeExcess">>},
                     c1 \in Leaves(<< <<0, 0>> >>), c2 \in Leaves(<<>>)} :
                t[2][1][2][2][4] # t[3][2][4]}

StringsOver(S) ==
    {String(<<>>, c) : c \in S}
        \cup {String(<< <<checks, c1>> >>, c2) : checks \in StrChecks, c1 \in S, c2 \in S}
        \cup {String(<< <<<<"Literal">>, c1>>, <<<<"TakeByte", "TakeExcess">>, c2>> >>, c3)
              : c1 \in S, c2 \in S, c3 \in S}

\* the trees that take one value and go on into a tree of S
Irrefutable(S) == {Wildcard(c) : c \in S} \cup {Opaque(c) : c \in S}
Refutable(S) == IntsOver(S) \cup BoolsOver(S) \cup SumsOver(S) \cup ListsOver(S)

\* the trees of a field: a wildcard or a bool test
FieldsOver(S) ==
    {Wildcard(c) : c \in S}
        \cup {Bools(<< <<TRUE, c1>>, <<FALSE, c2>> >>) : c1 \in S, c2 \in S}

Trees ==
    UNION {Leaves(binds) \cup Irrefutable(Leaves(binds)) \cup Refutable(Leaves(binds))
               \cup MalformedBools(Leaves(binds))
               \cup SumsFromVariantOne(Leaves(binds)) \cup UnsortedSums(Leaves(binds))
               \cup UnsortedInts(Leaves(binds))
               \cup {Tuple(2, Ints(<<Arm(to_range(constraints_from_bitsize(signed, Bits)), t)>>))
                     : signed \in BOOLEAN, t \in FieldsOver(Leaves(binds))}
               \cup {Tuple(1, t) : t \in Refutable(Leaves(binds))}
               \cup {Record(1, t) : t \in FieldsOver(Leaves(binds))}
               \cup {Tuple(2, t) : t \in FieldsOver(FieldsOver(Leaves(binds)))}
               \cup {Record(2, Wildcard(t)) : t \in SumsOver(Leaves(binds))}
           : binds \in Binds}
        \cup StringsOver(Leaves(<<>>)) \cup MisplacedTakeExcess(Leaves(<<>>))
        \cup StringsBinding

RECURSIVE SumSeq(_)
SumSeq(q) == IF q = <<>> THEN 0 ELSE Head(q) + SumSeq(Tail(q))

\* the decision paths of tree t that end in tail i
RECURSIVE DecisionPaths(_, _)
DecisionPaths(t, i) ==
    CASE t[1] = "End" -> IF t[2][1] = "Reached" /\ t[2][4] = i THEN 1 ELSE 0
      [] t[1] \in {"Record", "Tuple"} -> DecisionPaths(t[3], i)
      [] t[1] \in {"Wildcard", "Opaque"} -> DecisionPaths(t[2], i)
      [] t[1] \in {"List", "Bools"} ->
            SumSeq([k \in 1 .. Len(t[2]) |-> DecisionPaths(t[2][k][2], i)])
      [] t[1] = "Ints" -> SumSeq([k \in 1 .. Len(t[2]) |-> DecisionPaths(t[2][k].next, i)])
      [] t[1] = "Sum" -> SumSeq([k \in 1 .. Len(t[3]) |-> DecisionPaths(t[3][k][2], i)])
      [] t[1] = "String" ->
            SumSeq([k \in 1 .. Len(t[2]) |-> DecisionPaths(t[2][k][2], i)]) + DecisionPaths(t[3], i)

\* the function a match is lowered into: the entry block, its parameter the
\* scrutinee
Entry == [blocks |-> <<[params |-> 1, typed |-> 1, code |-> <<>>]>>,
          cur |-> 0, nval |-> 0, bindmap |-> EmptyMap]
Scrutinee == BlockParam(0, 0)

InitLower ==
    /\ modules = <<>> /\ project = UNSET_PROJECT
    /\ libs = [s \in LibSections |-> EmptyMap]
    /\ ndecl = 0 /\ declared = <<>> /\ res = NoQuery
    /\ branching = Idle /\ merge = Idle
    /\ lower = Idle
    /\ \E t \in Trees :
         matching = [phase |-> "match", on |-> Scrutinee, tree |-> t,
                     branches |-> Branches, pred |-> [i \in Tails |-> DecisionPaths(t, i)]]

\* expr.rs, the Match arm: self.to_pat_lower(branches, pred) ...
ToPatLower ==
    /\ matching.phase = "match"
    /\ lower = Idle
    /\ lower' = [to_pat_lower(Entry, matching.branches, matching.pred) EXCEPT
                   !.phase = "made"]
    /\ UNCHANGED <<resolver_vars, range_vars, matching>>

\* ... .run(on, tree)
Run ==
    /\ lower # Idle
    /\ lower.phase = "made"
    /\ lower' = [run(lower, matching.on, matching.tree) EXCEPT !.phase = "ran"]
    /\ UNCHANGED <<resolver_vars, range_vars, matching>>

NextLower ==
    \/ ToPatLower
    \/ Run

SpecLower == InitLower /\ [][NextLower]_vars

\* ------------------------------- integer arms of a column that is not the last

\* two adjacent arms that end in tails with the same tail data
SharesTailData(left, right) ==
    /\ left[1] = "End" /\ right[1] = "End"
    /\ \/ /\ left[2][1] = "Reached" /\ right[2][1] = "Reached"
          /\ left[2][2] = right[2][2] /\ left[2][4] = right[2][4]
       \/ /\ left[2][1] = "Unreached" /\ right[2][1] = "Unreached"
          /\ left[2][2] = right[2][2]

Coalesced(branches) ==
    \A k \in 1 .. Len(branches) - 1 :
        ~SharesTailData(branches[k].next, branches[k + 1].next)

\* the subtrees of the arms while the tree of a match is being built: a leaf,
\* reached or not, or the node of the next column
ArmSubtrees ==
    {End(Unreached(<<>>)), Wildcard(End(Unreached(<<>>)))}
        \cup {End(Reached(PointTable(<<>>), <<>>, k)) : k \in 0 .. (MaxMerges - 1)}

\* a Branching<Range> some merges have been made on already
InitArms ==
    /\ modules = <<>> /\ project = UNSET_PROJECT
    /\ libs = [s \in LibSections |-> EmptyMap]
    /\ ndecl = 0 /\ declared = <<>> /\ res = NoQuery
    /\ matching = Idle /\ lower = Idle
    /\ merge = Idle
    /\ \E signed \in BOOLEAN :
         LET con == constraints_from_bitsize(signed, Bits) IN
         \E lay \in Layouts(con) :
           \E c \in [1 .. Len(lay) -> ArmSubtrees] :
             LET branches == [k \in 1 .. Len(lay) |->
                                Arm(Range(con, lay[k][1], lay[k][2]), c[k])]
             IN  /\ Coalesced(branches)
                 /\ branching = [phase |-> "arms", con |-> con,
                                 merges |-> MaxMerges - 1, branches |-> branches]

SpecArms == InitArms /\ [][NextRange]_vars

\* --------------------------------------- constraints at the width of i128

\* an i128 in two's complement, as the set of the positions of its 1 bits
I128Bits == 0 .. 127
\* an arithmetic overflow: no pattern of 128 bits
Overflow == {128}

\* `1 << n`: shifting by the width or more overflows
shl_one(n) == IF n \in I128Bits THEN {n} ELSE Overflow

\* `x - 1`: the lowest 1 bit is cleared and the bits below it are set
sub_one(x) ==
    IF x = Overflow \/ x = {127} THEN Overflow
    ELSE IF x = {} THEN I128Bits
    ELSE LET k == CHOOSE k \in x : \A n \in x : k <= n
         IN  (x \ {k}) \cup {n \in I128Bits : n < k}

\* `x + 1`: the lowest 0 bit is set and the bits below it are cleared
add_one(x) ==
    IF x = Overflow \/ x = I128Bits \ {127} THEN Overflow
    ELSE IF x = I128Bits THEN {}
    ELSE LET k == CHOOSE k \in I128Bits \ x : \A n \in I128Bits \ x : k <= n
         IN  {n \in x : n > k} \cup {k}

\* `-x`
neg(x) ==
    IF x = Overflow \/ x = {127} THEN Overflow
    ELSE add_one(I128Bits \ x)

\* the unsigned maximum taken with the shift of the signed one
constraints_from_bitsize_halved(signed, bitsize) ==
    LET max == sub_one(shl_one(bitsize - 1))
        min == IF signed THEN sub_one(neg(max)) ELSE {}
    IN  Constraints(min, max)

\* constraints_from_bitsize, computed on i128 as the code computes it
constraints_from_bitsize_i128(signed, bitsize) ==
    LET max == IF signed THEN sub_one(shl_one(bitsize - 1))
               ELSE sub_one(shl_one(bitsize))
        min == IF signed THEN sub_one(neg(max)) ELSE {}
    IN  Constraints(min, max)

InitConstraints ==
    /\ modules = <<>> /\ project = UNSET_PROJECT
    /\ libs = [s \in LibSections |-> EmptyMap]
    /\ ndecl = 0 /\ declared = <<>> /\ res = NoQuery
    /\ matching = Idle /\ lower = Idle
    /\ merge = Idle
    /\ \E signed \in BOOLEAN, bitsize \in 1 .. MaxWidth :
         branching = [phase |-> "bitsize", signed |-> signed, bitsize |-> bitsize]

ConstraintsFromBitsize ==
    /\ branching.phase = "bitsize"
    /\ branching' = [phase |-> "constraints", signed |-> branching.signed,
                     bitsize |-> branching.bitsize,
                     con |-> constraints_from_bitsize_i128(branching.signed,
                                                           branching.bitsize)]
    /\ UNCHANGED <<resolver_vars, merge, pat_vars>>

NextConstraints == ConstraintsFromBitsize

SpecConstraints == InitConstraints /\ [][NextConstraints]_vars

\* ------------------------------------------------------------------ claims

IsResolve == res.op = "resolve"
IsError(result, kinds) == result[1] = "Err" /\ result[2][1] \in kinds
ResWalk == Walk(res.from, res.namespace, res.path, res.ignore_vis)
ReservedNames == LibSections \cup {"project"}
ErrorKinds == {"LibNotInstalled", "NotFound", "ModNotFound", "BadAccess"}

FieldOf(namespace) ==
    CASE namespace = "Functions" -> "funcs"
      [] namespace = "Types" -> "types"
      [] namespace = "Modules" -> "child_modules"

TagOf(field) ==
    CASE field = "funcs" -> "Func"
      [] field = "types" -> "Type"
      [] field = "child_modules" -> "Module"

Fields == {"funcs", "types", "child_modules"}
FieldsWith(ns, name) == {f \in Fields : name \in DOMAIN ns[f]}

\* the project root of a module as the specification describes it: up the
\* Member.root chain to a Root, then up Root.parent to a parentless Root
RECURSIVE project_root(_)
project_root(of) ==
    LET kind == NS(of).kind IN
    IF kind[1] = "Member" THEN project_root(kind[2])
    ELSE IF kind[2] = None THEN of ELSE project_root(kind[2][2])

\* the latest declaration of `name` in the `field` map of `module`
LatestDecl(module, field, name) ==
    LET made == {i \in 1 .. Len(declared) :
                    /\ declared[i].module = module
                    /\ declared[i].field = field
                    /\ declared[i].name = name}
    IN  IF made = {} THEN None
        ELSE Some(declared[CHOOSE i \in made : \A j \in made : j <= i])

\* the entity a declaration binds, as a resolution reports it
DeclaredEntity(d) == Mod(d.visibility, d.dst, <<TagOf(d.field), d.key>>)

\* a resolve_func / resolve_type / resolve_module call on a one-segment path
\* whose name has been declared in the origin's map of that namespace
OneSegmentOfDeclared ==
    /\ IsResolve
    /\ ~res.ignore_vis
    /\ Len(res.path) = 1
    /\ LatestDecl(res.from, FieldOf(res.namespace), res.path[1]) # None

ResDecl == LatestDecl(res.from, FieldOf(res.namespace), res.path[1])[2]

\* C1 as stated: once n is declared in m's map of namespace ns, resolving [n]
\* from m with priority ns returns exactly the declared entity, for every name
\* and every declared visibility.
C1_RoundTripEveryNameAndVisibility ==
    OneSegmentOfDeclared => res.result = Ok(DeclaredEntity(ResDecl))

\* C1 amended: for every name that is not one of the reserved first segments
\* std, ext, prelude, project, resolving [n] from m with priority ns returns
\* exactly the declared entity when is_valid_reachability(m, vis) accepts the
\* declared visibility, and BadAccess on that entity when it does not.
C1_RoundTrip ==
    OneSegmentOfDeclared /\ res.path[1] \notin ReservedNames =>
        IF is_valid_reachability(res.from, ResDecl.visibility)
        THEN res.result = Ok(DeclaredEntity(ResDecl))
        ELSE res.result = Err(BadAccess(ResDecl.visibility,
                                        describe(DeclaredEntity(ResDecl).key),
                                        res.path[1]))

\* a type declared project-visible is resolved by its one-segment path from
\* its module, with a function of the same name declared beside it
C1_Witness ==
    /\ OneSegmentOfDeclared
    /\ res.path[1] \notin ReservedNames
    /\ res.namespace = "Types"
    /\ ResDecl.visibility # Public
    /\ res.path[1] \in DOMAIN NS(res.from).funcs
    /\ res.result = Ok(DeclaredEntity(ResDecl))

\* C2: is_valid_reachability(current, vis) is true iff vis is Public, or vis is
\* Project(m) and current and m have the same project root (Member.root up to
\* a Root, then Root.parent transitively).
C2_ReachableIffSameProjectRoot ==
    res.op = "is_valid_reachability" =>
        (res.result <=>
            \/ res.visibility = Public
            \/ /\ res.visibility[1] = "Project"
               /\ project_root(res.current) = project_root(res.visibility[2]))

\* C3: a function foo hosted in module A and visible as Project(A), looked up
\* by resolve_func(B, ["foo"]) in the function namespace B sees, resolves for
\* every B in the project root of A and fails with BadAccess for every B in
\* another project root.
C3_ProjectVisibilityAcrossModules ==
    /\ IsResolve
    /\ ~res.ignore_vis
    /\ res.namespace = "Functions"
    /\ res.path = <<"foo">>
    /\ "foo" \in DOMAIN NS(res.from).funcs
    /\ NS(res.from).funcs["foo"].visibility[1] = "Project"
    => LET foo == NS(res.from).funcs["foo"]
           A == foo.visibility[2]
       IN  IF project_root(res.from) = project_root(A)
       THEN res.result = Ok(map(foo, "Func"))
       ELSE IsError(res.result, {"BadAccess"})

\* C4: every resolve_func, resolve_type, resolve_module and resolve_langitem
\* call, on every path, ends by returning an entity or one of the four error
\* kinds; it never aborts.
C4_ResolveNeverAborts ==
    IsResolve => res.result[1] = "Ok" \/ IsError(res.result, ErrorKinds)

\* C5: resolve returns the origin-rooted result of resolve_in when that is a
\* success, a BadAccess or a LibNotInstalled; when it is a NotFound or a
\* ModNotFound the same path is retried from PRELUDE, a success of the retry is
\* the result, and when the retry fails too the result is the origin-rooted
\* error.
C5_PreludeFallback ==
    IsResolve /\ ResWalk # None =>
        LET first == ResWalk[2].first
            retry == ResWalk[2].prelude
        IN  /\ first[1] = "Ok" \/ IsError(first, {"BadAccess", "LibNotInstalled"})
                => res.result = first
            /\ IsError(first, {"NotFound", "ModNotFound"}) /\ retry[1] = "Ok"
                => res.result = retry
            /\ IsError(first, {"NotFound", "ModNotFound"}) /\ retry[1] = "Err"
                => res.result = first

\* both walks fail, with different errors, and the origin-rooted one is returned
C5_Witness ==
    /\ IsResolve
    /\ ResWalk # None
    /\ IsError(ResWalk[2].first, {"ModNotFound"})
    /\ IsError(ResWalk[2].prelude, {"BadAccess"})
    /\ res.result = ResWalk[2].first

\* a resolve_func call on a one-segment path, beside the resolve_type call from
\* the same origin on the same path
FuncBesideType ==
    /\ IsResolve
    /\ ~res.ignore_vis
    /\ res.namespace = "Functions"
    /\ Len(res.path) = 1

\* the module whose namespaces answer a one-segment lookup of `name`: the
\* origin when it declares the name at all, else the prelude
Answering(from, name) ==
    IF FieldsWith(NS(from), name) # {} THEN from ELSE PRELUDE

\* C6 as stated: resolve_func and resolve_type on [name] differ only when name
\* is in both the function and the type namespace of the answering module, and
\* then resolve_func returns the function binding and resolve_type the type
\* binding.
C6_DisagreeOnlyOnBothEachItsBinding ==
    FuncBesideType =>
        LET name == res.path[1]
            ns == NS(Answering(res.from, name))
            of_type == resolve_type(res.from, res.path)
        IN  res.result # of_type =>
                /\ {"funcs", "types"} \subseteq FieldsWith(ns, name)
                /\ res.result = Ok(map(ns.funcs[name], "Func"))
                /\ of_type = Ok(map(ns.types[name], "Type"))

\* what a one-segment lookup makes of the binding `entity` the module
\* `answering` gives it: the binding when the origin may reach it, else
\* BadAccess from the origin's own namespaces and the origin's NotFound from
\* the prelude's
Decided(from, answering, name, entity) ==
    IF is_valid_reachability(from, entity.visibility) THEN Ok(entity)
    ELSE IF answering = from
         THEN Err(BadAccess(entity.visibility, describe(entity.key), name))
         ELSE Err(NotFound(from, name))

\* C6 amended: resolve_func and resolve_type on [name] differ only when name is
\* in both the function and the type namespace of the answering module, and
\* then each result is decided by its same-namespace binding: that binding when
\* it is reachable from the origin, else BadAccess on it (the origin's
\* NotFound when the prelude answers).
C6_DisagreeOnlyOnBoth ==
    FuncBesideType =>
        LET name == res.path[1]
            answering == Answering(res.from, name)
            ns == NS(answering)
            of_type == resolve_type(res.from, res.path)
        IN  res.result # of_type =>
                /\ {"funcs", "types"} \subseteq FieldsWith(ns, name)
                /\ res.result =
                     Decided(res.from, answering, name, map(ns.funcs[name], "Func"))
                /\ of_type =
                     Decided(res.from, answering, name, map(ns.types[name], "Type"))

\* the prelude answers with a function the origin may reach and a type it may
\* not: resolve_func returns the function, resolve_type the origin's NotFound
C6_Witness ==
    /\ FuncBesideType
    /\ Answering(res.from, res.path[1]) # res.from
    /\ res.result[1] = "Ok"
    /\ res.result[2].key[1] = "Func"
    /\ resolve_type(res.from, res.path) = Err(NotFound(res.from, res.path[1]))

\* C7: a resolution run with ignore_vis (every resolve_langitem call, every
\* path that starts with std, prelude) never returns BadAccess.
C7_IgnoreVisNeverBadAccess ==
    IsResolve /\ effective_ignore_vis(res.path, res.ignore_vis) =>
        ~IsError(res.result, {"BadAccess"})

\* ["std", "prelude", "foo"] resolved from a module of another root returns the
\* function foo that the library declares project-visible
C7_Witness ==
    /\ IsResolve
    /\ ~res.ignore_vis
    /\ res.path = <<"std", "prelude", "foo">>
    /\ res.result[1] = "Ok"
    /\ res.result[2].key[1] = "Func"
    /\ res.result[2].visibility # Public
    /\ ~is_valid_reachability(res.from, res.result[2].visibility)

\* C8: when path[0] is a library section label, resolve takes the next segment
\* as the library name and walks the rest from the library registered under it
\* in that section; when none is registered the result is
\* LibNotInstalled(name), whatever the prelude holds.
C8_LibraryPrefix ==
    IsResolve /\ res.path # <<>> /\ res.path[1] \in LibSections =>
        LET lname == IF Len(res.path) >= 2 THEN res.path[2] ELSE ""
            section == libs[res.path[1]]
        IN  IF lname \in DOMAIN section
            THEN /\ ResWalk # None
                 /\ ResWalk[2].module = section[lname]
                 /\ ResWalk[2].path = SliceFrom(res.path, 2)
            ELSE res.result = Err(LibNotInstalled(lname))

\* what C9 says of resolve_in(origin, namespace, M, path, ignore_vis) = result
\* when path has two or more segments and the first is no import of M
SugarAsStated(M, path, result) ==
    Exists(M) /\ Len(path) >= 2 /\ resolve_import(M, path[1]) = None =>
        LET x == path[1]
            types == NS(M).types
        IN  IF Len(path) = 2 /\ x \in DOMAIN types
            THEN result = Ok([types[x] EXCEPT !.key = <<"Member", @, path[2]>>])
            ELSE result = Err(ModNotFound(M, x))

\* C9 as stated: for [x, y] walked in M with x no import, resolve_in returns
\* Member(T, y) iff x names a type T of M, ModNotFound(M, x) otherwise, and
\* ModNotFound(M, x) for three or more segments.
C9_MemberSugarIffType ==
    IsResolve /\ Exists(res.from) /\ ResWalk # None =>
        /\ SugarAsStated(ResWalk[2].module, ResWalk[2].path, ResWalk[2].first)
        /\ SugarAsStated(PRELUDE, ResWalk[2].path, ResWalk[2].prelude)

SugarAmended(origin, M, path, ignore_vis, result) ==
    Exists(M) /\ Len(path) >= 2 /\ resolve_import(M, path[1]) = None =>
        LET x == path[1]
            types == NS(M).types
        IN  IF Len(path) = 2 /\ x \in DOMAIN types
            THEN IF is_valid_reachability(origin, types[x].visibility) \/ ignore_vis
                 THEN result = Ok([types[x] EXCEPT !.key = <<"Member", @, path[2]>>])
                 ELSE result = Err(BadAccess(types[x].visibility, "member", path[2]))
            ELSE result = Err(ModNotFound(M, x))

\* C9 amended: for [x, y] walked in M with x no import, resolve_in returns
\* Member(T, y) iff x names a type T of M that the origin may reach (or
\* ignore_vis is set); for a type it may not reach the result is
\* BadAccess(vis, "member", y); when x names no type, and for three or more
\* segments, it is ModNotFound(M, x).
C9_MemberSugar ==
    IsResolve /\ Exists(res.from) /\ ResWalk # None =>
        /\ SugarAmended(res.from, ResWalk[2].module, ResWalk[2].path,
                        ResWalk[2].ignore_vis, ResWalk[2].first)
        /\ SugarAmended(res.from, PRELUDE, ResWalk[2].path,
                        ResWalk[2].ignore_vis, ResWalk[2].prelude)

\* [x, y] with x a type of the origin and no module: Member(x, y) is returned
C9_Witness ==
    /\ IsResolve
    /\ ResWalk # None
    /\ Len(ResWalk[2].path) = 2
    /\ Exists(ResWalk[2].module)
    /\ resolve_import(ResWalk[2].module, ResWalk[2].path[1]) = None
    /\ ResWalk[2].path[1] \in DOMAIN NS(ResWalk[2].module).types
    /\ ResWalk[2].path[1] \in DOMAIN NS(ResWalk[2].module).funcs
    /\ res.result[1] = "Ok"
    /\ res.result[2].key[1] = "Member"

\* the order try_namespace probes the namespaces in, by priority
ProbeOrder(priority) ==
    CASE priority = "Functions" -> <<"funcs", "types", "child_modules">>
      [] priority = "Types" -> <<"types", "funcs", "child_modules">>
      [] priority = "Modules" -> <<"child_modules", "funcs", "types">>

FirstHit(ns, priority, name) ==
    LET order == ProbeOrder(priority)
        hits == {i \in 1 .. 3 : name \in DOMAIN ns[order[i]]}
        first == CHOOSE i \in hits : \A j \in hits : i <= j
    IN  IF hits = {} THEN None
        ELSE Some(map(ns[order[first]][name], TagOf(order[first])))

\* C10: try_namespace(priority, name) returns the binding of the first
\* namespace that contains name, in the order of its priority; nothing only
\* when name is in none of the three; and the priority changes the result only
\* when name is declared in more than one namespace.
C10_NamespacePriority ==
    res.op = "try_namespace" =>
        LET ns == NS(res.module) IN
        /\ res.result = FirstHit(ns, res.namespace, res.name)
        /\ res.result = None <=> FieldsWith(ns, res.name) = {}
        /\ \A priority \in Namespace :
             try_namespace(ns, priority, res.name) # res.result
                => Cardinality(FieldsWith(ns, res.name)) >= 2

\* a name that is a function and a child module: the module priority returns
\* the module, the function priority the function
C10_Witness ==
    /\ res.op = "try_namespace"
    /\ res.namespace = "Modules"
    /\ FieldsWith(NS(res.module), res.name) = {"funcs", "child_modules"}
    /\ res.result # None
    /\ res.result[2].key[1] = "Module"
    /\ try_namespace(NS(res.module), "Functions", res.name)[2].key[1] = "Func"

\* the module links resolve_in follows when it walks `path` from `module`: the
\* import of each segment but the last, as long as there is one
RECURSIVE LinksTraversed(_, _)
LinksTraversed(module, path) ==
    IF Len(path) < 2 \/ ~Exists(module) THEN <<>>
    ELSE LET imp == resolve_import(module, Head(path)) IN
         IF imp = None THEN <<>>
         ELSE <<imp[2]>> \o LinksTraversed(imp[2].key, Tail(path))

\* what C11 says of resolve_in(origin, namespace, M, path, ignore_vis) = result
ModuleSegmentChecked(origin, M, path, ignore_vis, result) ==
    LET links == LinksTraversed(M, path) IN
    /\ Len(links) >= 1 /\ ~ignore_vis
         /\ ~is_valid_reachability(origin, links[1].visibility)
         => result = Err(BadAccess(links[1].visibility, "module", path[1]))
    /\ result[1] = "Ok" /\ ~ignore_vis
         => /\ \A i \in 1 .. Len(links) :
                 /\ is_valid_reachability(origin, links[i].visibility)
                 /\ links[i].visibility # Public
                      => project_root(origin) = project_root(links[i].visibility[2])
            /\ is_valid_reachability(origin, result[2].visibility)
            /\ result[2].visibility # Public
                 => project_root(origin) = project_root(result[2].visibility[2])

\* C11: on a path of two or more segments whose first segment is an import the
\* origin may not reach, resolve_in without ignore_vis returns
\* BadAccess(vis, "module", x) whatever the target module holds; and in every
\* success without ignore_vis each module link followed and the entity returned
\* are reachable from the origin.
C11_ModuleSegmentVisibility ==
    IsResolve /\ Exists(res.from) /\ ResWalk # None =>
        /\ ModuleSegmentChecked(res.from, ResWalk[2].module, ResWalk[2].path,
                                ResWalk[2].ignore_vis, ResWalk[2].first)
        /\ ModuleSegmentChecked(res.from, PRELUDE, ResWalk[2].path,
                                ResWalk[2].ignore_vis, ResWalk[2].prelude)

\* from another root, a path through a project-visible link of the project
\* module, which the link's own module may follow: BadAccess on the link
C11_Witness ==
    /\ IsResolve
    /\ ~res.ignore_vis
    /\ ResWalk # None
    /\ ResWalk[2].module # res.from
    /\ LinksTraversed(ResWalk[2].module, ResWalk[2].path) # <<>>
    /\ LET link == LinksTraversed(ResWalk[2].module, ResWalk[2].path)[1] IN
       /\ is_valid_reachability(link.module, link.visibility)
       /\ res.result = Err(BadAccess(link.visibility, "module", ResWalk[2].path[1]))

\* a step that is a declare call: the call made, as logged
DeclareStep ==
    /\ Len(declared') = Len(declared) + 1
    /\ declared'[Len(declared')].field \in {"funcs", "types"}

\* C12: declare returns the binding the name had in that namespace map of the
\* module (none on the first declaration) and replaces it with the new one,
\* which the next lookup in that map sees; the other names of the map, the
\* other maps of the module and every other module are unchanged.
C12_DeclareReplacesAndReturnsPrevious ==
    [][DeclareStep =>
        LET d == declared'[Len(declared')]
            before == modules[d.module + 1]
            after == modules'[d.module + 1]
        IN  /\ d.returned = IF d.name \in DOMAIN before[d.field]
                            THEN Some(before[d.field][d.name]) ELSE None
            /\ DOMAIN after[d.field] = DOMAIN before[d.field] \cup {d.name}
            /\ after[d.field][d.name] = Mod(d.visibility, d.dst, d.key)
            /\ \A n \in DOMAIN before[d.field] :
                 n # d.name => after[d.field][n] = before[d.field][n]
            /\ \A f \in DOMAIN before : f # d.field => after[f] = before[f]
            /\ Len(modules') = Len(modules)
            /\ \A m \in ModuleKeys : m # d.module => modules'[m + 1] = modules[m + 1]
            /\ try_namespace(after, IF d.field = "funcs" THEN "Functions" ELSE "Types",
                             d.name)
                 = Some(Mod(d.visibility, d.dst, <<TagOf(d.field), d.key>>))]_vars

\* a name is declared a second time in the same map: the call returned the
\* first binding and the map holds the second
C12_Witness ==
    /\ Len(declared) = 2
    /\ declared[2].field \in {"funcs", "types"}
    /\ declared[1].field = declared[2].field
    /\ declared[1].module = declared[2].module
    /\ declared[1].name = declared[2].name
    /\ declared[1].visibility # declared[2].visibility
    /\ declared[2].returned
         = Some(Mod(declared[1].visibility, declared[1].dst, declared[1].key))
    /\ NS(declared[2].module)[declared[2].field][declared[2].name].key
         = declared[2].key

\* the accessors declared for `name` in `module`, in the order of the calls
RECURSIVE AccessorsDeclared(_, _, _)
AccessorsDeclared(log, module, name) ==
    IF log = <<>> THEN <<>>
    ELSE LET d == log[Len(log)]
             earlier == AccessorsDeclared(SubSeq(log, 1, Len(log) - 1), module, name)
         IN  IF d.field = "accessors" /\ d.module = module /\ d.name = name
             THEN Append(earlier, Mod(d.visibility, d.module, d.key))
             ELSE earlier

\* C13: after any sequence of declare_accessor calls the entries of every
\* accessors[name] are unique by (record, field), and resolve_accessor returns
\* the candidates declared for the name in the module, in declaration order
\* (the empty list when there are none).
C13_AccessorsUniqueInOrder ==
    /\ \A m \in ModuleKeys : \A n \in DOMAIN NS(m).accessors :
         LET entry == NS(m).accessors[n] IN
         \A i, j \in 1 .. Len(entry) : i # j => entry[i].key # entry[j].key
    /\ res.op = "resolve_accessor" =>
         res.result = AccessorsDeclared(declared, res.module, res.name)

\* C14: lib_should_be_included(["std", X, rest...]) returns Some((X, rest)) iff
\* no library named X is registered in the std section (so None once
\* new_lib("std", X) has registered it), and None for every path whose first
\* segment is not std, the ext and prelude sections included.
C14_LibShouldBeIncluded ==
    res.op = "lib_should_be_included" /\ Len(res.path) >= 1 =>
        IF res.path[1] = "std"
        THEN Len(res.path) >= 2 =>
               LET X == res.path[2]
                   rest == SubSeq(res.path, 3, Len(res.path))
               IN  /\ res.result = Some(<<X, rest>>) <=> X \notin DOMAIN libs["std"]
                   /\ res.result # Some(<<X, rest>>) => res.result = None
        ELSE res.result = None

\* a path into the prelude section whose library is not registered there, while
\* the std section has a library: nothing is to be included
C14_Witness ==
    /\ res.op = "lib_should_be_included"
    /\ Len(res.path) >= 2
    /\ res.path[1] = "prelude"
    /\ res.path[2] \notin DOMAIN libs["prelude"]
    /\ DOMAIN libs["std"] # {}
    /\ res.result = None

\* resolve_import as C15 states it
RECURSIVE ImportAsStated(_, _)
ImportAsStated(from, name) ==
    LET own == NS(from).child_modules IN
    IF name \in DOMAIN own THEN Some(own[name])
    ELSE IF NS(from).kind[1] = "Member" THEN ImportAsStated(NS(from).kind[2], name)
    ELSE None

\* C15: resolve_import(from, name) returns from's own child-module binding of
\* name when it has one; otherwise, for a Member, what resolve_import returns
\* on its root; otherwise nothing, the parent of a Root never being consulted.
C15_ResolveImport ==
    res.op = "resolve_import" =>
        LET own == NS(res.from).child_modules
            kind == NS(res.from).kind
        IN  /\ res.result = ImportAsStated(res.from, res.name)
            /\ res.name \in DOMAIN own => res.result = Some(own[res.name])
            /\ kind[1] = "Root" /\ res.name \notin DOMAIN own => res.result = None

\* a Member without a binding of its own gets the binding of its root
C15_Witness ==
    /\ res.op = "resolve_import"
    /\ NS(res.from).kind[1] = "Member"
    /\ res.name \notin DOMAIN NS(res.from).child_modules
    /\ res.name \in DOMAIN NS(NS(res.from).kind[2]).child_modules
    /\ res.result = Some(NS(NS(res.from).kind[2]).child_modules[res.name])

\* the integers an arm list covers, each as often as it is covered
Covered(branches, v) ==
    {k \in 1 .. Len(branches) : branches[k].range.start <= v /\ v <= branches[k].range.end}

\* sorted by start, pairwise non-overlapping, no empty arm, and every integer of
\* the domain covered
Tiling(branches, con) ==
    /\ \A k \in 1 .. Len(branches) :
         /\ branches[k].range.start <= branches[k].range.end
         /\ con.min <= branches[k].range.start /\ branches[k].range.end <= con.max
    /\ \A k \in 1 .. (Len(branches) - 1) :
         /\ branches[k].range.start < branches[k + 1].range.start
         /\ branches[k].range.end < branches[k + 1].range.start
    /\ \A v \in con.min .. con.max : Cardinality(Covered(branches, v)) = 1

\* C20: from arms that are sorted, disjoint and cover [min, max], merge_int
\* with min <= s <= e <= max leaves arms that are sorted by start, pairwise
\* non-overlapping, without an empty arm, and cover the same integers.
C20_MergeKeepsTiling ==
    /\ merge.phase = "merged"
    /\ Tiling(merge.before, branching.con)
    /\ branching.con.min <= merge.start /\ merge.start <= merge.end
    /\ merge.end <= branching.con.max
    => /\ ~merge.aborted
       /\ Tiling(branching.branches, branching.con)
       /\ \A v \in branching.con.min .. branching.con.max :
            Covered(branching.branches, v) # {} <=> Covered(merge.before, v) # {}

\* a merge that lies inside one arm and splits it on both sides, after an
\* earlier merge
C20_Witness ==
    /\ merge.phase = "merged"
    /\ ~merge.aborted
    /\ Len(merge.before) >= 2
    /\ \E k \in 1 .. Len(merge.before) :
         /\ merge.before[k].range.start < merge.start
         /\ merge.end < merge.before[k].range.end
    /\ Len(branching.branches) = Len(merge.before) + 2

\* a tree whose Bools nodes have their two arms, one keyed true, one keyed false
RECURSIVE WellFormedTree(_)
WellFormedTree(t) ==
    CASE t[1] = "End" -> TRUE
      [] t[1] \in {"Record", "Tuple"} -> WellFormedTree(t[3])
      [] t[1] \in {"Wildcard", "Opaque"} -> WellFormedTree(t[2])
      [] t[1] = "Bools" ->
            /\ Len(t[2]) = 2
            /\ t[2][1][1] # t[2][2][1]
            /\ \A k \in 1 .. 2 : WellFormedTree(t[2][k][2])
      [] t[1] = "List" -> \A k \in 1 .. Len(t[2]) : WellFormedTree(t[2][k][2])
      [] t[1] = "Ints" ->
            /\ t[2][1].range.start = t[2][1].range.con.min
            /\ t[2][Len(t[2])].range.end = t[2][1].range.con.max
            /\ \A k \in 1 .. Len(t[2]) - 1 : t[2][k + 1].range.start = t[2][k].range.end + 1
            /\ \A k \in 1 .. Len(t[2]) : WellFormedTree(t[2][k].next)
      [] t[1] = "Sum" ->
            /\ \A k \in 1 .. Len(t[3]) - 1 : t[3][k][1] = t[3][k + 1][1] - 1
            /\ \A k \in 1 .. Len(t[3]) : WellFormedTree(t[3][k][2])
      [] t[1] = "String" ->
            /\ \A k \in 1 .. Len(t[2]) :
                 /\ WellFormedTree(t[2][k][2])
                 /\ \A n \in 1 .. Len(t[2][k][1]) - 1 : t[2][k][1][n] # "TakeExcess"
            /\ WellFormedTree(t[3])

\* the fallthrough arm of a string match binds no value at the depth of the
\* string, whose entry the map no longer holds there
RECURSIVE BindsHeld(_)
BindsHeld(t) ==
    CASE t[1] = "String" ->
            /\ \A k \in 1 .. Len(t[2]) : BindsHeld(t[2][k][2])
            /\ BindsHeld(t[3])
            /\ (t[3][1] = "End" /\ t[3][2][1] = "Reached") => t[3][2][2].binds = <<>>
      [] t[1] \in {"Record", "Tuple"} -> BindsHeld(t[3])
      [] t[1] \in {"Wildcard", "Opaque"} -> BindsHeld(t[2])
      [] t[1] \in {"List", "Bools"} -> \A k \in 1 .. Len(t[2]) : BindsHeld(t[2][k][2])
      [] t[1] = "Ints" -> \A k \in 1 .. Len(t[2]) : BindsHeld(t[2][k].next)
      [] t[1] = "Sum" -> \A k \in 1 .. Len(t[3]) : BindsHeld(t[3][k][2])
      [] OTHER -> TRUE

\* run has returned or aborted on a well-formed tree
Lowered ==
    lower.phase = "ran" /\ WellFormedTree(matching.tree) /\ BindsHeld(matching.tree)

\* the events of one kind about tail i, by their position in the log
EventsOf(kind, i) ==
    {n \in 1 .. Len(lower.events) : lower.events[n][1] = kind /\ lower.events[n][2] = i}

\* the places in the function where the body of tail i was emitted
BodiesEmitted(i) ==
    UNION {{<<b, j>> : j \in {n \in 1 .. Len(lower.blocks[b].code) :
                               /\ lower.blocks[b].code[n][1] = "let"
                               /\ lower.blocks[b].code[n][3] = <<"body", matching.branches[i]>>}}
           : b \in 1 .. Len(lower.blocks)}

Terminated(b) ==
    \E n \in 1 .. Len(lower.blocks[b + 1].code) :
        lower.blocks[b + 1].code[n][1] \in Terminators

Successors(b) ==
    UNION {{lower.blocks[b + 1].code[n][2][k] : k \in 1 .. Len(lower.blocks[b + 1].code[n][2])}
           : n \in {n \in 1 .. Len(lower.blocks[b + 1].code) :
                      lower.blocks[b + 1].code[n][1] \in Terminators \ {"return"}}}

\* the blocks reached from those of S on paths that stay clear of block `avoid`
RECURSIVE ReachAvoiding(_, _)
ReachAvoiding(S, avoid) ==
    LET N == (S \cup UNION {Successors(b) : b \in S}) \ {avoid}
    IN  IF N = S THEN S ELSE ReachAvoiding(N, avoid)

Reachable == ReachAvoiding({0}, 0 - 1)
Dominates(a, b) == a = b \/ b \notin ReachAvoiding({0} \ {a}, a)

\* the block a value is defined in
DefBlock(v) ==
    IF v[1] = "bparam" THEN v[2]
    ELSE CHOOSE b \in 0 .. Len(lower.blocks) - 1 :
           \E n \in 1 .. Len(lower.blocks[b + 1].code) :
               /\ lower.blocks[b + 1].code[n][1] = "let"
               /\ lower.blocks[b + 1].code[n][2] = v[2]

\* C17: when run returns on a well-formed tree, the current block is not
\* terminated, every path through the lowered match ends in it, and the value
\* returned is defined in a block that dominates it
C17_RunPostcondition ==
    Lowered =>
      /\ ~lower.aborted
      /\ lower.returned # None
      /\ ~Terminated(lower.cur)
      /\ \A b \in Reachable : Successors(b) = {} => b = lower.cur
      /\ Dominates(DefBlock(lower.returned[2]), lower.cur)

\* the instruction that defines value v
InstrOf(v) ==
    LET b == DefBlock(v)
        n == CHOOSE n \in 1 .. Len(lower.blocks[b + 1].code) :
               /\ lower.blocks[b + 1].code[n][1] = "let"
               /\ lower.blocks[b + 1].code[n][2] = v[2]
    IN  lower.blocks[b + 1].code[n][3]

\* the truth of check v when the scrutinee is the integer x
RECURSIVE Holds(_, _)
Holds(v, x) ==
    LET instr == InstrOf(v) IN
    CASE instr[1] = "eq" -> eq(x, instr[3][2])
      [] instr[1] = "lti" -> lti(x, instr[3][2])
      [] instr[1] = "gti" -> gti(x, instr[3][2])
      [] instr[1] = "bit_and" -> bit_and(Holds(instr[2], x), Holds(instr[3], x))

\* the arms of an integer match that got a test, by their position in the log
ArmsTested == {n \in 1 .. Len(lower.events) : lower.events[n][1] = "ints"}

\* the test the arm is stated to get
TestAsStated(range, check, on) ==
    LET instr == InstrOf(check) IN
    IF range.start = range.end
    THEN instr = <<"eq", on, ValueInt(range.start)>>
    ELSE IF range.start = range.con.min
    THEN instr = <<"lti", on, ValueInt(range.end + 1)>>
    ELSE /\ instr[1] = "bit_and"
         /\ InstrOf(instr[2]) = <<"lti", on, ValueInt(range.end + 1)>>
         /\ InstrOf(instr[3]) = <<"gti", on, ValueInt(range.start - 1)>>

\* C18: the test emitted for an integer arm that is not the arm ending the
\* domain is an equality with start when start = end, else v < end + 1 and,
\* unless start = min, v > start - 1; it is true exactly for start <= v <= end
C18_IntegerRangeTest ==
    Lowered =>
      \A n \in ArmsTested :
         LET range == lower.events[n][2]
             check == lower.events[n][3]
             on == lower.events[n][4]
         IN  /\ TestAsStated(range, check, on)
             /\ \A x \in range.con.min .. range.con.max :
                  Holds(check, x) <=> (range.start <= x /\ x <= range.end)

\* the tails a tree ends in, and the tails whose block is reached from block b
LeafTails(t) == {i \in Tails : DecisionPaths(t, i) > 0}
BodiesReached(b) ==
    {i \in Tails : /\ lower.expressions[i] # None
                   /\ lower.expressions[i][2] \in ReachAvoiding({b}, 0 - 1)}

\* the subtree of the arm with key b
Keyed(branches, b) ==
    branches[CHOOSE k \in 1 .. Len(branches) : branches[k][1] = b][2]

\* the Bools nodes lowered, by their position in the log
BoolsLowered == {n \in 1 .. Len(lower.events) : lower.events[n][1] = "bools"}

\* the control-flow instructions of block b
FlowOf(b) ==
    {n \in 1 .. Len(lower.blocks[b + 1].code) :
       lower.blocks[b + 1].code[n][1] \in Terminators}

\* C19: a Bools node with its two arms, in either order, gets one select on
\* the value matched, whose on_true block leads to the subtree keyed true and
\* whose on_false block leads to the subtree keyed false; the bodies are
\* lowered once each and hand their value to the block run returns in; a
\* Bools node with another arm count aborts
C19_BoolLowering ==
    (lower.phase = "ran" /\ matching.tree[1] = "Bools") =>
      IF Len(matching.tree[2]) # 2
      THEN lower.aborted
      ELSE
      /\ ~lower.aborted
      /\ Cardinality(BoolsLowered) = 1
      /\ \A n \in BoolsLowered :
           LET on == lower.events[n][2]
               block == lower.events[n][3]
               on_true == lower.events[n][4]
               on_false == lower.events[n][5]
               branches == lower.events[n][6]
           IN  /\ on = matching.on /\ branches = matching.tree[2]
               /\ \A m \in FlowOf(block) :
                    lower.blocks[block + 1].code[m] =
                        <<"select", <<on_true, on_false>>, on>>
               /\ Cardinality(FlowOf(block)) = 1
               /\ BodiesReached(on_true) = LeafTails(Keyed(branches, TRUE))
               /\ BodiesReached(on_false) = LeafTails(Keyed(branches, FALSE))
      /\ \A i \in LeafTails(matching.tree) :
           /\ Cardinality(BodiesEmitted(i)) = 1
           /\ \A at \in BodiesEmitted(i) :
                LET code == lower.blocks[at[1]].code IN
                /\ Len(code) = 2
                /\ code[2] = <<"jump", <<lower.cur>>, <<Value(code[1][2])>> >>
      /\ lower.returned = Some(BlockParam(lower.cur, 0))

\* the arm keyed false given first, the two arms with a body each
C19_Witness ==
    /\ lower.phase = "ran" /\ matching.tree[1] = "Bools"
    /\ Len(matching.tree[2]) = 2
    /\ ~matching.tree[2][1][1]
    /\ Cardinality(LeafTails(matching.tree)) = 2
    /\ Cardinality(BoolsLowered) = 1

\* C21: after merge_int no two adjacent arms, wherever they sit in the list,
\* both end in tails that share tail data (two reached leaves with the same
\* table and tail id, two unreached leaves with the same excess)
C21_AdjacentArmsCoalesced ==
    (merge.phase = "merged" /\ ~merge.aborted /\ Coalesced(merge.before))
        => Coalesced(branching.branches)

\* i128 values told by their bits: 2^n - 1, -(2^n), and the order of two values
AllOnesBelow(n) == {k \in I128Bits : k < n}
MinusPow2(n) == {k \in I128Bits : k >= n}
IsNegative(x) == 127 \in x
\* x <= y: by sign first, then by the highest bit in which they differ
LessEq(x, y) ==
    \/ x = y
    \/ IsNegative(x) /\ ~IsNegative(y)
    \/ /\ IsNegative(x) = IsNegative(y)
       /\ LET d == (x \ y) \cup (y \ x)
              top == CHOOSE k \in d : \A n \in d : n <= k
          IN  top \in y

\* the integer a short bit pattern stands for
RECURSIVE Magnitude(_)
Magnitude(x) ==
    IF x = {} THEN 0
    ELSE LET k == CHOOSE k \in x : TRUE IN Pow2(k) + Magnitude(x \ {k})
IntOf(x) == IF IsNegative(x) THEN 0 - (Magnitude(I128Bits \ x) + 1) ELSE Magnitude(x)

\* C22: constraints_from_bitsize(signed, w) is [-2^(w-1), 2^(w-1) - 1] when
\* signed and [0, 2^w - 1] when not, for every width up to 64; min <= max and,
\* when signed, min = -max - 1; at the widths the arms are built with, the
\* constraints of the arms are these integers
C22_ConstraintsFromBitsize ==
    branching.phase = "constraints" =>
      LET w == branching.bitsize
          con == branching.con
      IN  /\ con.max # Overflow /\ con.min # Overflow
          /\ con.max = IF branching.signed THEN AllOnesBelow(w - 1) ELSE AllOnesBelow(w)
          /\ con.min = IF branching.signed THEN MinusPow2(w - 1) ELSE {}
          /\ LessEq(con.min, con.max)
          /\ branching.signed => con.min = sub_one(neg(con.max))
          /\ w <= Bits + 1 =>
               constraints_from_bitsize(branching.signed, w)
                   = Constraints(IntOf(con.min), IntOf(con.max))

\* the two cases of the test at width 64
C22_Witness ==
    /\ branching.phase = "constraints"
    /\ branching.bitsize = 64
    /\ \/ branching.signed /\ branching.con = Constraints(MinusPow2(63), AllOnesBelow(63))
       \/ ~branching.signed /\ branching.con = Constraints({}, AllOnesBelow(64))

\* the subtree under the arm that covers v
SubtreeAt(branches, v) ==
    branches[CHOOSE k \in 1 .. Len(branches) : k \in Covered(branches, v)].next

\* C23: merge_int of [s, e] leaves every integer outside [s, e] under a
\* subtree equal to the one it was under before, the pieces split off on the
\* left and on the right included; the subtrees the merger went into are
\* those of the integers of [s, e]
C23_MergeKeepsUntouchedSubtrees ==
    /\ merge.phase = "merged" /\ ~merge.aborted
    /\ Tiling(merge.before, branching.con)
    => \A v \in branching.con.min .. branching.con.max :
         /\ (v < merge.start \/ v > merge.end) =>
              SubtreeAt(branching.branches, v) = SubtreeAt(merge.before, v)
         /\ (branching.branches # merge.before /\ merge.start <= v /\ v <= merge.end) =>
              SubtreeAt(branching.branches, v)
                  = merger_next(SubtreeAt(merge.before, v), merge.incoming).next

\* a merge inside one arm that is not a fresh leaf: a piece is split off on
\* each side, both under the subtree of the arm
C23_Witness ==
    /\ merge.phase = "merged" /\ ~merge.aborted
    /\ \E k \in 1 .. Len(merge.before) :
         /\ merge.before[k].next # End(Unreached(<<>>))
         /\ merge.before[k].range.start < merge.start
         /\ merge.end < merge.before[k].range.end
         /\ SubtreeAt(branching.branches, merge.start - 1) = merge.before[k].next
         /\ SubtreeAt(branching.branches, merge.end + 1) = merge.before[k].next
         /\ \E n \in 1 .. Len(branching.branches) :
              /\ branching.branches[n].range.start = merge.before[k].range.start
              /\ branching.branches[n].range.end = merge.start - 1

\* the jump tables at the end of block b
JumpTablesOf(b) ==
    {n \in FlowOf(b) : lower.blocks[b + 1].code[n][1] = "jump_table"}

\* the reads of the parameters of a variant in block b
SumFieldsIn(b) ==
    {n \in 1 .. Len(lower.blocks[b + 1].code) :
       /\ lower.blocks[b + 1].code[n][1] = "let"
       /\ lower.blocks[b + 1].code[n][3][1] = "sum_field"}

\* C24: sum aborts on branches whose variant ids are not contiguous and
\* ascending; otherwise the block of the match ends in one jump table on the
\* tag whose target at index t is the block that lowers the subtree of the
\* branch of variant t, whichever variant the first branch is
C24_SumJumpTableAligned ==
    (lower.phase = "ran" /\ matching.tree[1] = "Sum") =>
      LET variant_types == matching.tree[2]
          branches == matching.tree[3]
      IN  IF \E k \in 1 .. Len(branches) - 1 : branches[k][1] # branches[k + 1][1] - 1
          THEN lower.aborted
          ELSE /\ ~lower.aborted
               /\ FlowOf(0) = JumpTablesOf(0) /\ Cardinality(FlowOf(0)) = 1
               /\ \A n \in JumpTablesOf(0) :
                    LET table == lower.blocks[1].code[n] IN
                    /\ table[3] = Value(0)
                    /\ lower.blocks[1].code[1] = <<"let", 0, <<"field", matching.on, 0>> >>
                    /\ \A k \in 1 .. Len(branches) :
                         LET t == branches[k][1] IN
                         /\ t + 1 \in DOMAIN table[2]
                         /\ BodiesReached(table[2][t + 1]) = LeafTails(branches[k][2])
                         /\ Cardinality(SumFieldsIn(table[2][t + 1])) = variant_types[t + 1]

\* the arms whose lowering started, by their position in the log
ArmsEntered == {n \in 1 .. Len(lower.events) : lower.events[n][1] = "arm"}

\* the constructors an arm starts with, its own queues left out
BaseOf(n) ==
    SubSeq(lower.events[n][3], 1, Len(lower.events[n][3]) - lower.events[n][5])

\* C25: the arms of one branching node all start with the map and the
\* constructors the first of them started with: what an arm pushed to the map
\* or took from a constructor queue is not there when a sibling arm starts
C25_SnapshotIndependence ==
    Lowered =>
      \A a \in ArmsEntered, b \in ArmsEntered :
         lower.events[a][2] = lower.events[b][2] =>
            /\ lower.events[a][4] = lower.events[b][4]
            /\ BaseOf(a) = BaseOf(b)

\* two arms of one node that start with a field still to be matched, which
\* the first of them takes from its queue
C25_Witness ==
    /\ Lowered /\ ~lower.aborted
    /\ \E a \in ArmsEntered, b \in ArmsEntered :
         /\ a < b
         /\ lower.events[a][2] = lower.events[b][2]
         /\ BaseOf(a) # <<>> /\ BaseOf(a)[Len(BaseOf(a))] # <<>>
         /\ \E n \in ArmsEntered : a < n /\ n < b

\* the arms of the String nodes lowered, in the order of their lowering
StringBranches ==
    SelectSeq(lower.events, LAMBDA e : e[1] = "string_branch")

\* the blocks of the checks of an arm: from block b on, through the selects
\* whose other target is the block `falsely`
RECURSIVE CheckBlocks(_, _)
CheckBlocks(b, falsely) ==
    LET flow == {n \in FlowOf(b) : /\ lower.blocks[b + 1].code[n][1] = "select"
                                   /\ lower.blocks[b + 1].code[n][2][2] = falsely}
    IN  IF flow = {} THEN <<b>>
        ELSE LET n == CHOOSE n \in flow : TRUE IN
             <<b>> \o CheckBlocks(lower.blocks[b + 1].code[n][2][1], falsely)

\* the check an instruction belongs to, by the call that tells the checks apart
CheckOf(entry) ==
    IF entry[1] # "let" THEN <<>>
    ELSE CASE entry[3][1] = "string_equals" -> <<"Literal">>
           [] entry[3][1] = "string_len" -> <<"Take">>
           [] entry[3][1] = "string_split_first" /\ entry[3][3] = "x" -> <<"TakeByte">>
           [] entry[3][1] = "string_split_while" /\ entry[3][3] = "lhs" -> <<"TakeWhileLocal">>
           [] OTHER -> <<>>

RECURSIVE ChecksIn(_)
ChecksIn(code) ==
    IF code = <<>> THEN <<>> ELSE CheckOf(Head(code)) \o ChecksIn(Tail(code))

RECURSIVE ChecksMade(_)
ChecksMade(blocks) ==
    IF blocks = <<>> THEN <<>>
    ELSE ChecksIn(lower.blocks[Head(blocks) + 1].code) \o ChecksMade(Tail(blocks))

\* the block ends in a jump into the block of the body the leaf `subtree` ends in
EntersLeaf(b, subtree) ==
    /\ Cardinality(FlowOf(b)) = 1
    /\ \A n \in FlowOf(b) :
         /\ lower.blocks[b + 1].code[n][1] = "jump"
         /\ lower.expressions[subtree[2][4]] = Some(lower.blocks[b + 1].code[n][2][1])

TailJumps == {n \in 1 .. Len(lower.events) : lower.events[n][1] = "tail"}

\* the leaves of a tree that end in tail i
RECURSIVE TablesOf(_, _)
TablesOf(t, i) ==
    CASE t[1] = "End" -> IF t[2][1] = "Reached" /\ t[2][4] = i THEN {t[2][2]} ELSE {}
      [] t[1] \in {"Record", "Tuple"} -> TablesOf(t[3], i)
      [] t[1] \in {"Wildcard", "Opaque"} -> TablesOf(t[2], i)
      [] t[1] \in {"List", "Bools"} -> UNION {TablesOf(t[2][k][2], i) : k \in 1 .. Len(t[2])}
      [] t[1] = "Ints" -> UNION {TablesOf(t[2][k].next, i) : k \in 1 .. Len(t[2])}
      [] t[1] = "Sum" -> UNION {TablesOf(t[3][k][2], i) : k \in 1 .. Len(t[3])}
      [] t[1] = "String" ->
            UNION {TablesOf(t[2][k][2], i) : k \in 1 .. Len(t[2])} \cup TablesOf(t[3], i)

\* C27: every jump into the body of a reached tail passes, for each binding of
\* the table of the tail in order, the value the map holds at the depth of the
\* binding, a depth the map has on every path, those through String nodes
\* included; when the body is lowered each binding is bound to the parameter
\* of the block of the body at the same position
C27_BindingSoundness ==
    (lower.phase = "ran" /\ WellFormedTree(matching.tree)) =>
      /\ ~lower.aborted
      /\ \A n \in TailJumps :
           LET e == lower.events[n]
               from == e[4]
           IN  \A table \in TablesOf(matching.tree, e[2]) :
                 /\ \A k \in 1 .. Len(table.binds) : table.binds[k][2] < Len(e[6])
                 /\ \E j \in FlowOf(from) :
                      /\ lower.blocks[from + 1].code[j][1] = "jump"
                      /\ lower.blocks[from + 1].code[j][2] = <<e[3]>>
                      /\ lower.blocks[from + 1].code[j][3]
                             = [k \in 1 .. Len(table.binds) |-> e[6][table.binds[k][2] + 1]]
      /\ \A i \in Tails : \A n \in EventsOf("body", i) :
           \A table \in TablesOf(matching.tree, i) :
             \A k \in 1 .. Len(table.binds) :
               lower.events[n][5][table.binds[k][1]] = BlockParam(lower.events[n][3], k - 1)

\* the tests of the arms of the integer matches, in the order of their lowering
IntTests == SelectSeq(lower.events, LAMBDA e : e[1] = "ints")

\* the select that ends block b
SelectOf(b) ==
    lower.blocks[b + 1].code[CHOOSE n \in FlowOf(b) : TRUE]

\* the block of the body the integer x gets to from block b
RECURSIVE BodyOf(_, _)
BodyOf(b, x) ==
    LET flow == SelectOf(b) IN
    IF flow[1] = "jump" THEN flow[2][1]
    ELSE IF Holds(flow[3], x) THEN BodyOf(flow[2][1], x) ELSE BodyOf(flow[2][2], x)

\* the arms in declared order: each tested arm lowered in the on_true block
\* of its own test, the next arm in the on_false block of that test; the
\* first arm whose range ends the domain lowered without a test, and no arm
\* after it
ArmsInDeclaredOrder ==
    LET arms == matching.tree[2]
        full == {k \in 1 .. Len(arms) : arms[k].range.end = arms[k].range.con.max}
        last == IF full = {} THEN Len(arms) + 1
                ELSE CHOOSE k \in full : \A n \in full : k <= n
        tests == IntTests
        start(k) == IF k = 1 THEN 0 ELSE SelectOf(tests[k - 1][5])[2][2]
    IN  /\ Len(tests) = last - 1
        /\ \A k \in 1 .. Len(tests) :
             /\ tests[k][2] = arms[k].range
             /\ tests[k][5] = start(k)
             /\ Cardinality(FlowOf(start(k))) = 1
             /\ SelectOf(start(k))[1] = "select"
             /\ SelectOf(start(k))[3] = tests[k][3]
             /\ SelectOf(start(k))[2][1] = tests[k][6]
             /\ SelectOf(start(k))[2][1] # SelectOf(start(k))[2][2]
             /\ EntersLeaf(tests[k][6], arms[k].next)
        /\ last <= Len(arms) => EntersLeaf(start(last), arms[last].next)
        /\ Cardinality(TailJumps) = IF last <= Len(arms) THEN last ELSE Len(arms)

\* C28: ints lowers the arms in declared order, a tested arm in the on_true
\* block of its test and the next arm in the on_false block of that test; an
\* arm gets no test only when its range ends the domain, and no arm after it
\* is lowered; so, the arms sorted and covering the domain, every integer gets
\* to the body of the one arm whose range holds it
C28_IntegerArmOrdering ==
    (lower.phase = "ran" /\ matching.tree[1] = "Ints") =>
      /\ ArmsInDeclaredOrder
      /\ WellFormedTree(matching.tree) =>
           LET arms == matching.tree[2]
               con == arms[1].range.con
           IN  ~lower.aborted /\ \A x \in con.min .. con.max : \A k \in 1 .. Len(arms) :
                 (arms[k].range.start <= x /\ x <= arms[k].range.end) =>
                     lower.expressions[arms[k].next[2][4]] = Some(BodyOf(0, x))

\* get_root_module and resolve_import with the calls they may nest counted
\* down: None when the calls left do not suffice
RECURSIVE get_root_module_within(_, _, _)
get_root_module_within(table, of, calls) ==
    LET kind == table[of + 1].kind IN
    IF calls = 0 THEN None
    ELSE IF kind[1] = "Root"
    THEN IF kind[2] = None THEN Some(of)
         ELSE get_root_module_within(table, kind[2][2], calls - 1)
    ELSE Some(kind[2])

RECURSIVE resolve_import_within(_, _, _, _)
resolve_import_within(table, from, name, calls) ==
    IF calls = 0 THEN None
    ELSE IF name \in DOMAIN table[from + 1].child_modules
    THEN Some(Some(table[from + 1].child_modules[name]))
    ELSE IF table[from + 1].kind[1] = "Member"
         THEN resolve_import_within(table, table[from + 1].kind[2], name, calls - 1)
         ELSE Some(None)

\* the walks of a module table end: from each of its modules, with no more
\* nested calls than the table has modules, and from a Member at a Root
WalksEnd(table) ==
    \A m \in 0 .. Len(table) - 1 :
      /\ get_root_module_within(table, m, Len(table)) # None
      /\ table[m + 1].kind[1] = "Member" =>
           table[get_root_module_within(table, m, Len(table))[2] + 1].kind[1] = "Root"
      /\ \A name \in LinkNames \cup PathNames :
           resolve_import_within(table, m, name, Len(table)) # None

\* a step that answers a query
Resolution == res' # NoQuery /\ res' # res

FlagOf(e) ==
    CASE e[1] = "arm" -> <<e[6]>>
      [] e[1] = "body" -> <<e[6]>>
      [] e[1] = "continuation" -> <<e[3]>>
      [] OTHER -> <<>>

RECURSIVE FlagsOf(_)
FlagsOf(events) ==
    IF events = <<>> THEN <<>> ELSE FlagOf(Head(events)) \o FlagsOf(Tail(events))

\* the arms of one node
ArmsOf(node) == {a \in ArmsEntered : lower.events[a][2] = node}

\* C30: can_skip_continuation starts true and is never set again once
\* cleared; it is clear when a subtree of a bool, string or list node, or of
\* an int or sum node with more than one arm, is lowered; a body leaves its
\* value in continuation_value only with the flag set and no continuation
\* block made, and the continuation block is made only with the flag clear
\* and no continuation_value left, so run finds one of the two and neither of
\* its assertions fails on a well-formed tree
C30_ContinuationMode ==
    /\ (lower # Idle /\ lower.phase = "made") => lower.can_skip_continuation
    /\ lower # Idle =>
         LET flags == <<TRUE>> \o FlagsOf(lower.events) \o <<lower.can_skip_continuation>> IN
         /\ \A k \in 1 .. Len(flags) - 1 : flags[k + 1] => flags[k]
         /\ \A a \in ArmsEntered :
              (\/ lower.events[a][2][1] \in {"bools", "string", "list"}
               \/ Cardinality(ArmsOf(lower.events[a][2])) > 1) => ~lower.events[a][6]
         /\ \A n \in 1 .. Len(lower.events) :
              LET e == lower.events[n] IN
              /\ e[1] = "body" => (e[6] => e[7] = None)
              /\ e[1] = "continuation" => (~e[3] /\ e[4] = None)
         /\ (\E n \in 1 .. Len(lower.events) : lower.events[n][1] = "continuation")
                => ~lower.can_skip_continuation /\ lower.continuation_value = None
         /\ lower.continuation_value # None => lower.can_skip_continuation
    /\ Lowered =>
         /\ ~lower.aborted
         /\ lower.returned # None
         /\ lower.can_skip_continuation <=> lower.returned = lower.continuation_value

\* a match of two columns, the first with one arm and lowered with the flag
\* set, the second with two arms, whose bodies meet in the continuation block
C30_Witness ==
    /\ Lowered
    /\ matching.tree[1] = "Tuple"
    /\ \E a \in ArmsEntered : lower.events[a][6]
    /\ \E a \in ArmsEntered : ~lower.events[a][6]
    /\ \E n \in 1 .. Len(lower.events) : lower.events[n][1] = "continuation"
    /\ ~lower.can_skip_continuation

====
